---------------------------- MODULE Spec2Model ----------------------------
(***************************************************************************)
(* Conversation orchestration core of the Telegram FAQ bot: the keyword    *)
(* intent classifier, the escalation rules, the funnel router with its     *)
(* seven stage policies, the per-turn control loop of the                  *)
(* funnel-integrated handler (bot/handlers/chat_new.py), the FAQ/LLM       *)
(* handler (bot/handlers/chat.py) and the retry loop of the Ollama client  *)
(* (ai/ollama_client.py).                                                  *)
(*                                                                         *)
(* Texts.  The code only ever asks of a message whether a literal phrase   *)
(* occurs in its lower-cased form (`keyword in text_lower`) and how many   *)
(* whitespace-separated tokens it has (`len(text_lower.split())`).  A text *)
(* is therefore the record [contains, words]: the set of phrases of the    *)
(* program's keyword lists that occur in the lower-cased text, and its     *)
(* token count.  Phrases are written in Latin transliteration; Within      *)
(* lists every pair of phrases of which the first is a substring of the    *)
(* second in the original spelling, so a text that contains the second     *)
(* contains the first.                                                     *)
(*                                                                         *)
(* Confidences are the code's floats in fixed point: the integer c stands  *)
(* for c / Scale.  Every quotient matches / total of the registry is a     *)
(* multiple of 1 / Scale, and so are 0.01, 0.3 and 0.5.                    *)
(***************************************************************************)
EXTENDS Integers, Sequences, FiniteSets, TLC

VARIABLES
    text,             \* classify: the message text under classification
    intent,           \* classify / should_escalate: the Intent
    confidence,       \* should_escalate: its confidence argument
    escalation,       \* should_escalate: the returned (bool, reason)
    funnel_contexts,  \* chat_new._funnel_contexts: user id -> FunnelContext
    clock,            \* datetime.now() as a logical clock of stage changes
    route_call,       \* the last FunnelRouter.route call: inputs and result
    turns,            \* one record per dispatched update (handler task)
    messages,         \* ConversationContext: persisted history per user
    tickets,          \* TicketManager: the tickets created, in order
    outbox,           \* message.answer: the messages sent and not deleted
    call,             \* OllamaClient: one call of a generation method
    chat,             \* bot/handlers/chat.py: one run of handle_text_message
    creating,         \* TicketManager.create_ticket: the call in progress
    extraction,       \* SlotExtractor: the instance and the calls of extract
    search,           \* knowledge/search.py: the calls of quick_faq_check
    regression,       \* qa/test_cases.py: case id -> the intent classify returns
    stream            \* OllamaClient.chat_stream: one call and its on_token calls

nluVars == <<text, intent, confidence, escalation>>
funnelVars == <<funnel_contexts, clock, route_call>>
turnVars == <<turns, messages, tickets, outbox>>
llmVars == <<call, chat>>
callVars == <<creating, extraction, search, regression, stream>>
vars == <<text, intent, confidence, escalation, funnel_contexts, clock,
          route_call, turns, messages, tickets, outbox, call, chat, creating,
          extraction, search, regression, stream>>

None == "None"

(* Values of the variables before the call that sets them.                 *)
NoText == [contains |-> {}, words |-> 0]
NoIntent == [name |-> None, priority |-> 0, confidence |-> 0, group |-> None]
NoConfidence == -1
NoEscalation == [escalate |-> FALSE, reason |-> <<None>>]
NoCall == [method |-> None]
NoChat == [pc |-> None]
NoCreate == [pc |-> None]

NoExtraction == [instance |-> <<>>, calls |-> <<>>]

NoRegression == [c \in {} |-> None]

NoStream == [pc |-> None]

IdleCalls ==
    /\ creating = NoCreate
    /\ extraction = NoExtraction
    /\ search = <<>>
    /\ regression = NoRegression
    /\ stream = NoStream

Min(a, b) == IF a <= b THEN a ELSE b

Max(a, b) == IF a >= b THEN a ELSE b

-----------------------------------------------------------------------------
(* nlu/intent_classifier.py                                                *)

Scale == 8400

SECURITY == 1
PRIVACY == 2
COMPLAINTS == 3
TRANSACTIONS == 4
PRESALES == 5
SUPPORT == 6
NAVIGATION == 7

IntentPriority == SECURITY..NAVIGATION

Groups ==
    {"security", "privacy", "complaints", "transactions", "presales",
     "support", "navigation"}

SECURITY_INTENTS ==
  <<
    [name |-> "abuse", keywords |-> <<
        "moshenni", "obman", "kidal", "razvod",
        "skam", "haker", "vzlom", "virus">>],
    [name |-> "aggression", keywords |-> <<
        "suka", "blyat", "pidor", "huj",
        "ublyudok", "mudak", "gnida", "svoloch",
        "uebok", "ubyu", "ubit", "ugrozh">>],
    [name |-> "fraud_signals", keywords |-> <<
        "daj parol", "nazovi parol", "dannye klienta", "daj telefon",
        "telefon klienta", "pokazhi zakaz", "zakaz drugogo">>]
  >>

PRIVACY_INTENTS ==
  <<
    [name |-> "privacy_request", keywords |-> <<
        "udalit dannye", "udalite moi dannye", "zabyt menya", "pravo na zabvenie",
        "gdpr", "personalnye dannye", "zapros dannyh">>],
    [name |-> "delete_data", keywords |-> <<
        "udalit", "udalite", "steret", "ochistit istoriyu",
        "zabyt">>],
    [name |-> "get_data_copy", keywords |-> <<
        "vygruzit dannye", "kopiya dannyh", "eksport dannyh", "chto vy znaete obo mne",
        "kakie dannye hranite">>]
  >>

COMPLAINTS_INTENTS ==
  <<
    [name |-> "refund_request", keywords |-> <<
        "vozvrat", "vernut", "vernut dengi", "vernite dengi",
        "otmenit zakaz", "ne hochu", "otkaz ot zakaza">>],
    [name |-> "complaint_quality", keywords |-> <<
        "plohoe kachestvo", "ne rabotaet", "slomalos", "defekt",
        "brak", "nekachestvenno", "ne to chto obeschali">>],
    [name |-> "complaint_service", keywords |-> <<
        "plohoj servis", "ne dovoln", "zhaloba", "pretenziya",
        "obmanuli", "ne vypolnili", "zaderzhka">>]
  >>

TRANSACTIONS_INTENTS ==
  <<
    [name |-> "buy", keywords |-> <<
        "kupit", "zakazat", "oformit", "hochu zakazat",
        "gotov zakazat", "oformlyaem">>],
    [name |-> "payment", keywords |-> <<
        "oplata", "oplatit", "kak oplatit", "sposob oplaty",
        "gde platit", "schet">>],
    [name |-> "invoice", keywords |-> <<
        "schyot", "vystavit schyot", "nuzhen schyot", "invojs",
        "rekvizity">>],
    [name |-> "appointment_booking", keywords |-> <<
        "zapisatsya", "zapis", "naznachit vstrechu", "konsultaciya",
        "sozvonitsya">>]
  >>

PRESALES_INTENTS ==
  <<
    [name |-> "services_browse", keywords |-> <<
        "uslugi", "chto delaete", "chem zanimaetes", "napravleniya",
        "servisy", "predlagaete">>],
    [name |-> "pricing_request", keywords |-> <<
        "cena", "stoimost", "skolko stoit", "rascenki",
        "prajs", "tarif", "byudzhet">>],
    [name |-> "timing_request", keywords |-> <<
        "srok", "kak dolgo", "kogda", "vremya vypolneniya",
        "dlitelnost", "kak bystro">>],
    [name |-> "comparison", keywords |-> <<
        "sravnit", "raznica", "otlichie", "chto luchshe",
        "chem otlichaetes", "konkurenty">>],
    [name |-> "objections", keywords |-> <<
        "dorogo", "dolgo", "ne uveren", "podumat",
        "somnevayus", "ne ubedili">>]
  >>

SUPPORT_INTENTS ==
  <<
    [name |-> "how_to", keywords |-> <<
        "kak", "instrukciya", "ne ponyatno", "ne poluchaetsya",
        "pomogite", "podskazhite">>],
    [name |-> "status", keywords |-> <<
        "status", "gde zakaz", "otsledit", "trek nomer",
        "proverit zakaz">>],
    [name |-> "change_order", keywords |-> <<
        "izmenit", "pomenyat", "dobavit", "ubrat",
        "izmenit zakaz">>],
    [name |-> "cancel_order", keywords |-> <<
        "otmenit", "ne nuzhen", "otmena zakaza">>]
  >>

NAVIGATION_INTENTS ==
  <<
    [name |-> "greet", keywords |-> <<
        "privet", "zdravstvuj", "dobryj den", "dobroe utro",
        "dobryj vecher", "hi", "hello">>],
    [name |-> "menu", keywords |-> <<
        "menyu", "glavnaya", "razdely", "chto umeesh">>],
    [name |-> "help", keywords |-> <<
        "pomosch", "spravka", "chto delat", "ne ponimayu">>],
    [name |-> "human_handoff", keywords |-> <<
        "menedzher", "operator", "chelovek", "specialist",
        "zhivoj", "hochu s chelovekom">>]
  >>
Within ==
    {<<"chelovek", "hochu s chelovekom">>, <<"da", "daj parol">>, <<"da", "daj telefon">>,
     <<"da", "dannye klienta">>, <<"da", "davajte">>, <<"da", "eksport dannyh">>,
     <<"da", "gnida">>, <<"da", "kakie dannye hranite">>, <<"da", "kidal">>,
     <<"da", "kogda">>, <<"da", "kopiya dannyh">>, <<"da", "mudak">>,
     <<"da", "personalnye dannye">>, <<"da", "sozdat">>, <<"da", "udalit">>,
     <<"da", "udalit dannye">>, <<"da", "udalite">>, <<"da", "udalite moi dannye">>,
     <<"da", "vygruzit dannye">>, <<"da", "zapros dannyh">>, <<"dobryj", "dobryj den">>,
     <<"dobryj", "dobryj vecher">>, <<"dolgo", "kak dolgo">>, <<"izmenit", "izmenit zakaz">>,
     <<"kak", "kak bystro">>, <<"kak", "kak dela">>, <<"kak", "kak dolgo">>,
     <<"kak", "kak oplatit">>, <<"kak", "kak ty">>, <<"kak", "kakie dannye hranite">>,
     <<"obman", "obmanuli">>, <<"oform", "oformit">>, <<"oform", "oformlyaem">>,
     <<"oplatit", "kak oplatit">>, <<"otmenit", "otmenit zakaz">>, <<"podderzhka", "tehpodderzhka">>,
     <<"predlagaete", "chto predlagaete">>, <<"schyot", "nuzhen schyot">>, <<"schyot", "vystavit schyot">>,
     <<"udalit", "udalit dannye">>, <<"udalite", "udalite moi dannye">>, <<"vernut", "vernut dengi">>,
     <<"zabyt", "zabyt menya">>, <<"zakaz", "gde zakaz">>, <<"zakaz", "gotov zakazat">>,
     <<"zakaz", "hochu zakazat">>, <<"zakaz", "izmenit zakaz">>, <<"zakaz", "otkaz ot zakaza">>,
     <<"zakaz", "otmena zakaza">>, <<"zakaz", "otmenit zakaz">>, <<"zakaz", "pokazhi zakaz">>,
     <<"zakaz", "proverit zakaz">>, <<"zakaz", "zakaz drugogo">>, <<"zakaz", "zakazat">>,
     <<"zakazat", "gotov zakazat">>, <<"zakazat", "hochu zakazat">>}

Phrases2 ==
    {"daj parol", "nazovi parol", "dannye klienta", "daj telefon",
     "telefon klienta", "pokazhi zakaz", "zakaz drugogo", "udalit dannye",
     "zabyt menya", "personalnye dannye", "zapros dannyh", "ochistit istoriyu",
     "vygruzit dannye", "kopiya dannyh", "eksport dannyh", "vernut dengi",
     "vernite dengi", "otmenit zakaz", "ne hochu", "plohoe kachestvo",
     "ne rabotaet", "plohoj servis", "ne dovoln", "ne vypolnili",
     "hochu zakazat", "gotov zakazat", "kak oplatit", "sposob oplaty",
     "gde platit", "vystavit schyot", "nuzhen schyot", "naznachit vstrechu",
     "chto delaete", "chem zanimaetes", "skolko stoit", "kak dolgo",
     "vremya vypolneniya", "kak bystro", "chto luchshe", "chem otlichaetes",
     "ne uveren", "ne ubedili", "ne ponyatno", "ne poluchaetsya",
     "gde zakaz", "trek nomer", "proverit zakaz", "izmenit zakaz",
     "ne nuzhen", "otmena zakaza", "dobryj den", "dobroe utro",
     "dobryj vecher", "chto umeesh", "chto delat", "ne ponimayu",
     "kak dela", "kak ty", "chto novogo", "chto predlagaete",
     "pomoch razobratsya", "sdelat sajt"}

Phrases3 ==
    {"udalite moi dannye", "pravo na zabvenie", "kakie dannye hranite", "otkaz ot zakaza",
     "hochu s chelovekom", "chto vy delaete", "chto u vas"}

Phrases4 ==
    {"ne to chto obeschali"}

Phrases5 ==
    {"chto vy znaete obo mne"}

(* Tokens of a phrase: the number of its whitespace-separated words.       *)
PhraseWords(p) ==
    IF p \in Phrases5 THEN 5
    ELSE IF p \in Phrases4 THEN 4
    ELSE IF p \in Phrases3 THEN 3
    ELSE IF p \in Phrases2 THEN 2
    ELSE 1

(* The registry as _build_intent_registry appends it, group by group.      *)
Entries(group_intents, priority, group) ==
    [i \in 1..Len(group_intents) |->
        [name |-> group_intents[i].name, priority |-> priority,
         group |-> group, keywords |-> group_intents[i].keywords]]

Appended ==
    Entries(SECURITY_INTENTS, SECURITY, "security")
    \o Entries(PRIVACY_INTENTS, PRIVACY, "privacy")
    \o Entries(COMPLAINTS_INTENTS, COMPLAINTS, "complaints")
    \o Entries(TRANSACTIONS_INTENTS, TRANSACTIONS, "transactions")
    \o Entries(PRESALES_INTENTS, PRESALES, "presales")
    \o Entries(SUPPORT_INTENTS, SUPPORT, "support")
    \o Entries(NAVIGATION_INTENTS, NAVIGATION, "navigation")

(* registry.sort(key=lambda x: x[1]): a stable sort by priority.           *)
RECURSIVE SortFrom(_, _)
SortFrom(registry, p) ==
    IF p > NAVIGATION THEN <<>>
    ELSE SelectSeq(registry, LAMBDA e : e.priority = p)
         \o SortFrom(registry, p + 1)

build_intent_registry == SortFrom(Appended, SECURITY)

all_intents == build_intent_registry

Keywords ==
    UNION {{all_intents[i].keywords[j] : j \in 1..Len(all_intents[i].keywords)}
           : i \in 1..Len(all_intents)}

IntentNames == {all_intents[i].name : i \in 1..Len(all_intents)}

(* `p in text_lower` for every phrase p occurring in a listed phrase.      *)
Closure(S) == S \cup {pr[1] : pr \in {q \in Within : q[2] \in S}}

MinWords(S) ==
    IF \E p \in S : PhraseWords(p) >= 5 THEN 5
    ELSE IF \E p \in S : PhraseWords(p) >= 4 THEN 4
    ELSE IF \E p \in S : PhraseWords(p) >= 3 THEN 3
    ELSE IF \E p \in S : PhraseWords(p) >= 2 THEN 2
    ELSE 1

ShortMessageWords == 5
ShortMessageBonus == 2520
MinConfidence == 2520
DefaultConfidence == 4200

calculate_confidence(text_lower, keywords) ==
    LET matches == Cardinality({j \in 1..Len(keywords) :
                                    keywords[j] \in text_lower.contains})
        total_keywords == Len(keywords)
        base == (matches * Scale) \div total_keywords
    IN  IF matches = 0 THEN 0
        ELSE IF text_lower.words <= ShortMessageWords /\ matches > 0
             THEN Min(base + ShortMessageBonus, Scale)
             ELSE base

Intent(name, priority, conf, group) ==
    [name |-> name, priority |-> priority, confidence |-> conf, group |-> group]

DefaultIntent == Intent("general", NAVIGATION, DefaultConfidence, "navigation")

Qualifies(text_lower, e) ==
    LET conf == calculate_confidence(text_lower, e.keywords)
    IN  conf > 0 /\ (e.priority <= COMPLAINTS \/ conf >= MinConfidence)

(* Variants of the cascade: the 0.3 floor applied to every group; no floor *)
(* at all; the best-scoring qualifying entry instead of the first.         *)
RECURSIVE ClassifyFloorEverywhere(_, _)
ClassifyFloorEverywhere(text_lower, i) ==
    IF i > Len(all_intents) THEN DefaultIntent
    ELSE LET e == all_intents[i]
             conf == calculate_confidence(text_lower, e.keywords)
         IN  IF conf > 0 /\ conf >= MinConfidence
             THEN Intent(e.name, e.priority, conf, e.group)
             ELSE ClassifyFloorEverywhere(text_lower, i + 1)

RECURSIVE ClassifyNoFloor(_, _)
ClassifyNoFloor(text_lower, i) ==
    IF i > Len(all_intents) THEN DefaultIntent
    ELSE LET e == all_intents[i]
             conf == calculate_confidence(text_lower, e.keywords)
         IN  IF conf > 0
             THEN Intent(e.name, e.priority, conf, e.group)
             ELSE ClassifyNoFloor(text_lower, i + 1)

ClassifyBestScore(text_lower, i) ==
    LET hits == {j \in i..Len(all_intents) : Qualifies(text_lower, all_intents[j])}
        conf(j) == calculate_confidence(text_lower, all_intents[j].keywords)
    IN  IF hits = {} THEN DefaultIntent
        ELSE LET best == CHOOSE j \in hits :
                            \A k \in hits : conf(j) > conf(k)
                                            \/ (conf(j) = conf(k) /\ j <= k)
                 e == all_intents[best]
             IN  Intent(e.name, e.priority, conf(best), e.group)

RECURSIVE ClassifyHalfFloor(_, _)
ClassifyHalfFloor(text_lower, i) ==
    IF i > Len(all_intents) THEN DefaultIntent
    ELSE LET e == all_intents[i]
             conf == calculate_confidence(text_lower, e.keywords)
         IN  IF conf > 0 /\ e.priority <= COMPLAINTS
             THEN Intent(e.name, e.priority, conf, e.group)
             ELSE IF conf > 0 /\ conf >= MinConfidence \div 2
             THEN Intent(e.name, e.priority, conf, e.group)
             ELSE ClassifyHalfFloor(text_lower, i + 1)

RECURSIVE ClassifyFrom(_, _)
ClassifyFrom(text_lower, i) ==
    IF i > Len(all_intents) THEN DefaultIntent
    ELSE LET e == all_intents[i]
             conf == calculate_confidence(text_lower, e.keywords)
         IN  IF conf > 0 /\ e.priority <= COMPLAINTS
             THEN Intent(e.name, e.priority, conf, e.group)
             ELSE IF conf > 0 /\ conf >= MinConfidence
             THEN Intent(e.name, e.priority, conf, e.group)
             ELSE ClassifyFrom(text_lower, i + 1)

classify(t) == ClassifyFrom(t, 1)

-----------------------------------------------------------------------------
(* handoff/escalation_rules.py                                             *)

LowConfidence == 2520
DefaultConfidenceArg == 0

super_priority_groups == {"security", "privacy", "complaints"}

(* Variants of the rules: super-priority groups held to the confidence     *)
(* floor; the floor compared with <= instead of <.                         *)
should_escalate_floor_first(i, conf) ==
    IF i.group \in super_priority_groups /\ conf >= LowConfidence
    THEN [escalate |-> TRUE, reason |-> <<"critical_group", i.group>>]
    ELSE IF conf < LowConfidence /\ i.group \in {"transactions", "support"}
    THEN [escalate |-> TRUE, reason |-> <<"low_confidence">>]
    ELSE IF i.name = "human_handoff"
    THEN [escalate |-> TRUE, reason |-> <<"human_requested">>]
    ELSE IF i.name = "legal"
    THEN [escalate |-> TRUE, reason |-> <<"legal_question">>]
    ELSE [escalate |-> FALSE, reason |-> <<>>]

should_escalate_inclusive(i, conf) ==
    IF i.group \in super_priority_groups
    THEN [escalate |-> TRUE, reason |-> <<"critical_group", i.group>>]
    ELSE IF conf <= LowConfidence /\ i.group \in {"transactions", "support"}
    THEN [escalate |-> TRUE, reason |-> <<"low_confidence">>]
    ELSE IF i.name = "human_handoff"
    THEN [escalate |-> TRUE, reason |-> <<"human_requested">>]
    ELSE IF i.name = "legal"
    THEN [escalate |-> TRUE, reason |-> <<"legal_question">>]
    ELSE [escalate |-> FALSE, reason |-> <<>>]

should_escalate_sparing_complaints(i, conf) ==
    IF i.group \in super_priority_groups \ {"complaints"}
    THEN [escalate |-> TRUE, reason |-> <<"critical_group", i.group>>]
    ELSE IF conf < LowConfidence /\ i.group \in {"transactions", "support"}
    THEN [escalate |-> TRUE, reason |-> <<"low_confidence">>]
    ELSE IF i.name = "human_handoff"
    THEN [escalate |-> TRUE, reason |-> <<"human_requested">>]
    ELSE IF i.name = "legal"
    THEN [escalate |-> TRUE, reason |-> <<"legal_question">>]
    ELSE [escalate |-> FALSE, reason |-> <<>>]

should_escalate(i, conf) ==
    IF i.group \in super_priority_groups
    THEN [escalate |-> TRUE, reason |-> <<"critical_group", i.group>>]
    ELSE IF conf < LowConfidence /\ i.group \in {"transactions", "support"}
    THEN [escalate |-> TRUE, reason |-> <<"low_confidence">>]
    ELSE IF i.name = "human_handoff"
    THEN [escalate |-> TRUE, reason |-> <<"human_requested">>]
    ELSE IF i.name = "legal"
    THEN [escalate |-> TRUE, reason |-> <<"legal_question">>]
    ELSE [escalate |-> FALSE, reason |-> <<>>]

(* The canned reply of get_escalation_message, keyed by intent name.       *)
escalation_messages ==
    {"privacy", "refund_request", "complaint", "aggression", "human_handoff"}

get_escalation_message(i) ==
    IF i.name \in escalation_messages THEN <<"escalation", i.name>>
    ELSE <<"escalation", "default">>

-----------------------------------------------------------------------------
(* nlu/slot_extractor.py: SlotCollection and SlotExtractor.extract.        *)
(* A message is a text together with what the regular expressions of the   *)
(* extractor find in it: [contains, words, order_id, budget_band,          *)
(* deadline, phone, email], None where a pattern finds nothing.            *)

SlotNames == {"order_id", "budget_band", "deadline", "contact", "goal"}

NoSlot == [value |-> None, confidence |-> 0]

EmptySlots == [n \in SlotNames |-> NoSlot]

SlotCollection(required_slots) ==
    [slots |-> EmptySlots, required_slots |-> required_slots]

get_value(collection, slot_name) == collection.slots[slot_name].value

Truthy(v) == v # None /\ v # ""

ManualConfidence == 8400

set_value(collection, slot_name, value, conf) ==
    [collection EXCEPT !.slots[slot_name] = [value |-> value, confidence |-> conf]]

get_missing_slots(collection) ==
    SelectSeq(collection.required_slots,
              LAMBDA n : collection.slots[n].value = None)

goal_patterns ==
    << [goal |-> "konsultaciya",
        keywords |-> <<"konsultaciya", "posovetovat", "pomoch razobratsya">>],
       [goal |-> "razrabotka",
        keywords |-> <<"razrabotat", "sozdat", "sdelat sajt", "prilozhenie">>],
       [goal |-> "podderzhka",
        keywords |-> <<"podderzhka", "soprovozhdenie", "obsluzhivanie",
                       "tehpodderzhka">>],
       [goal |-> "avtomatizaciya",
        keywords |-> <<"avtomatizirovat", "avtomatizaciya", "optimizirovat">>] >>

AnyIn(keywords, contains) == \E j \in 1..Len(keywords) : keywords[j] \in contains

RECURSIVE GoalFrom(_, _)
GoalFrom(contains, i) ==
    IF i > Len(goal_patterns) THEN None
    ELSE IF AnyIn(goal_patterns[i].keywords, contains) THEN goal_patterns[i].goal
    ELSE GoalFrom(contains, i + 1)

extract_goal(message) == GoalFrom(message.contains, 1)

OrderIdConfidence == 7560
BudgetConfidence == 6720
DeadlineConfidence == 5880
ContactConfidence == 7980
GoalConfidence == 5040

(* An extractor that takes the name before the "@" as the contact.         *)
extract_contact_handle(message) ==
    IF message.phone # None THEN message.phone
    ELSE IF message.email # None THEN "@user"
    ELSE None

(* _extract_contact: the first match of PHONE_PATTERNS, and only when      *)
(* there is none the first match of EMAIL_PATTERNS.                        *)
extract_contact(message) ==
    IF message.phone # None THEN message.phone ELSE message.email

(* The values of the model by shape: those a pattern of PHONE_PATTERNS     *)
(* matches from their first character, those the pattern of EMAIL_PATTERNS *)
(* matches, those str.isdigit() accepts and those with a digit in them.    *)
PhoneShaped == {"+79991234567"}

EmailShaped == {"user@example.com"}

AllDigits == {"12345", "50", "50000"}

WithDigit ==
    PhoneShaped \cup AllDigits
    \cup {"50 rub", "50000 rub", "50000000 rub", "do 50", "do 50000"}

validate_slot(slot_name, value) ==
    IF slot_name = "contact" /\ ~Truthy(value)
    THEN <<FALSE, "contact_empty">>
    ELSE IF slot_name = "contact" /\ value \notin PhoneShaped
            /\ value \notin EmailShaped
    THEN <<FALSE, "contact_shape">>
    ELSE IF slot_name = "order_id" /\ (~Truthy(value) \/ value \notin AllDigits)
    THEN <<FALSE, "order_id_number">>
    ELSE IF slot_name = "budget_band" /\ value \notin WithDigit
    THEN <<FALSE, "budget_number">>
    ELSE <<TRUE, "">>

Found(value, conf) ==
    IF Truthy(value) THEN [value |-> value, confidence |-> conf] ELSE NoSlot

extract(message, required_slots) ==
    [slots |->
        [n \in SlotNames |->
            CASE n = "order_id" -> Found(message.order_id, OrderIdConfidence)
              [] n = "budget_band" -> Found(message.budget_band, BudgetConfidence)
              [] n = "deadline" -> Found(message.deadline, DeadlineConfidence)
              [] n = "contact" -> Found(extract_contact(message), ContactConfidence)
              [] n = "goal" -> Found(extract_goal(message), GoalConfidence)],
     required_slots |-> required_slots]

RECURSIVE MergeByConfidence(_, _, _)
MergeByConfidence(collection, new, names) ==
    IF names = {} THEN collection
    ELSE LET n == CHOOSE x \in names : TRUE
             merged == IF /\ Truthy(new.slots[n].value)
                          /\ new.slots[n].confidence >= collection.slots[n].confidence
                       THEN set_value(collection, n, new.slots[n].value,
                                      new.slots[n].confidence)
                       ELSE collection
         IN  MergeByConfidence(merged, new, names \ {n})

merge_extracted_by_confidence(collection, new) ==
    MergeByConfidence(collection, new, SlotNames)

(* for slot_name, slot_value in new.slots.items(): if slot_value.value:    *)
(*     slots.set_value(slot_name, slot_value.value, slot_value.confidence) *)
RECURSIVE MergeFrom(_, _, _)
MergeFrom(collection, new, names) ==
    IF names = {} THEN collection
    ELSE LET n == CHOOSE x \in names : TRUE
             merged == IF Truthy(new.slots[n].value)
                       THEN set_value(collection, n, new.slots[n].value,
                                      new.slots[n].confidence)
                       ELSE collection
         IN  MergeFrom(merged, new, names \ {n})

merge_extracted(collection, new) == MergeFrom(collection, new, SlotNames)

questions ==
    {"goal", "desired_outcome", "requested_item", "deadline", "budget_band",
     "location", "constraints", "quantity", "contact", "order_id"}

(* The question texts are named: "ask_goal" is the question for the goal   *)
(* slot, "ask_goal_and_deadline" the two questions joined by " I ".       *)
ask_next_missing(collection) ==
    LET missing == get_missing_slots(collection)
        first3 == SubSeq(missing, 1, IF Len(missing) < 3 THEN Len(missing) ELSE 3)
        combined_questions == SelectSeq(first3, LAMBDA n : n \in questions)
    IN  IF missing = <<>> THEN ""
        ELSE IF Len(missing) > 1 /\ Len(combined_questions) > 1
        THEN "ask_" \o combined_questions[1] \o "_and_" \o combined_questions[2]
        ELSE IF missing[1] \in questions THEN "ask_" \o missing[1]
        ELSE "clarify_" \o missing[1]

-----------------------------------------------------------------------------
(* funnel/stages.py and the seven stage policies.  A response text is      *)
(* named by the template that produces it; "" is the empty string.  Every  *)
(* template of the stages is at least 20 characters long.                  *)

ACQUISITION == "acquisition"
QUALIFICATION == "qualification"
OFFER == "offer"
CLOSING == "closing"
SUPPORT_STAGE == "support"
COMPLAINTS_STAGE == "complaints"
RETENTION == "retention"

FunnelStage ==
    {ACQUISITION, QUALIFICATION, OFFER, CLOSING, SUPPORT_STAGE,
     COMPLAINTS_STAGE, RETENTION}

(* compliance/data_minimization.py                                         *)
ALLOWED_PII_BY_STAGE ==
    [st \in FunnelStage |->
        CASE st = CLOSING -> {"contact"}
          [] st = SUPPORT_STAGE -> {"order_id"}
          [] st = COMPLAINTS_STAGE -> {"order_id", "contact"}
          [] OTHER -> {}]

is_pii_allowed(stage, pii_type) ==
    pii_type \in (IF stage \in DOMAIN ALLOWED_PII_BY_STAGE
                  THEN ALLOWED_PII_BY_STAGE[stage] ELSE {})

StageResult(stage, success, response_text, next_stage, requires_handoff, handoff_reason) ==
    [stage |-> stage, success |-> success, response_text |-> response_text,
     next_stage |-> next_stage, requires_handoff |-> requires_handoff,
     handoff_reason |-> handoff_reason]

FunnelContext(user_id, current_stage, slots) ==
    [user_id |-> user_id, current_stage |-> current_stage, slots |-> slots,
     stage_entry_count |-> [st \in FunnelStage |-> 0],
     last_stage_change |-> 0]

(* A move that counts the stage left instead of the stage entered.         *)
move_to_stage_counting_left(ctx, new_stage, now) ==
    [ctx EXCEPT !.current_stage = new_stage,
                !.last_stage_change = now,
                !.stage_entry_count[ctx.current_stage] = @ + 1]

(* last_stage_change: 0 is None, n > 0 the n-th reading of the clock.      *)
move_to_stage(ctx, new_stage, now) ==
    [ctx EXCEPT !.current_stage = new_stage,
                !.last_stage_change = now,
                !.stage_entry_count[new_stage] = @ + 1]

is_complete_any(required, collection) ==
    \E j \in 1..Len(required) : get_value(collection, required[j]) # None

is_complete(required, collection) ==
    \A j \in 1..Len(required) : get_value(collection, required[j]) # None

greetings ==
    <<"privet", "zdravstvuj", "dobryj", "kak dela", "kak ty", "chto novogo">>

browsing_keywords ==
    <<"chto vy delaete", "chem zanimaetes", "chto predlagaete", "pokazhite",
      "rasskazhite", "chto u vas">>

order_keywords ==
    <<"zakaz", "oform", "soglasen", "podhodit", "beru", "davajte", "da">>

(* An acquisition stage that looks at the intent before the browsing       *)
(* phrases.                                                                *)
AcquisitionProcessIntentFirst(message, i, slots) ==
    [slots |-> slots,
     result |->
        IF AnyIn(greetings, message.contains)
        THEN StageResult(ACQUISITION, TRUE, "greeting", ACQUISITION, FALSE, None)
        ELSE IF i.name # "general" /\ i.name # "greet"
        THEN StageResult(ACQUISITION, TRUE, "", QUALIFICATION, FALSE, None)
        ELSE IF AnyIn(browsing_keywords, message.contains)
        THEN StageResult(ACQUISITION, TRUE, "browsing", QUALIFICATION, FALSE, None)
        ELSE StageResult(ACQUISITION, TRUE, "general_inquiry", ACQUISITION,
                         FALSE, None)]

AcquisitionProcess(message, i, slots) ==
    [slots |-> slots,
     result |->
        IF AnyIn(greetings, message.contains)
        THEN StageResult(ACQUISITION, TRUE, "greeting", ACQUISITION, FALSE, None)
        ELSE IF AnyIn(browsing_keywords, message.contains)
        THEN StageResult(ACQUISITION, TRUE, "browsing", QUALIFICATION, FALSE, None)
        ELSE IF i.name # "general" /\ i.name # "greet"
        THEN StageResult(ACQUISITION, TRUE, "", QUALIFICATION, FALSE, None)
        ELSE StageResult(ACQUISITION, TRUE, "general_inquiry", ACQUISITION,
                         FALSE, None)]

QualificationRequired == <<"goal", "budget_band", "deadline">>

QualificationProcessWithoutGoal(message, i, slots) ==
    LET new_slots == extract(message, QualificationRequired)
        merged == merge_extracted(slots, new_slots)
    IN  [slots |-> merged,
         result |->
            IF is_complete(<<"budget_band", "deadline">>, merged)
            THEN StageResult(QUALIFICATION, TRUE, "summary", OFFER, FALSE, None)
            ELSE StageResult(QUALIFICATION, FALSE, ask_next_missing(merged),
                             QUALIFICATION, FALSE, None)]

QualificationProcess(message, i, slots) ==
    LET new_slots == extract(message, QualificationRequired)
        merged == merge_extracted(slots, new_slots)
    IN  [slots |-> merged,
         result |->
            IF is_complete(QualificationRequired, merged)
            THEN StageResult(QUALIFICATION, TRUE, "summary", OFFER, FALSE, None)
            ELSE StageResult(QUALIFICATION, FALSE, ask_next_missing(merged),
                             QUALIFICATION, FALSE, None)]

OfferProcess(message, i, slots) ==
    [slots |-> slots,
     result |->
        IF AnyIn(order_keywords, message.contains)
        THEN StageResult(OFFER, TRUE, "order_accepted", CLOSING, FALSE, None)
        ELSE StageResult(OFFER, TRUE, "offer", OFFER, FALSE, None)]

(* The values _create_order_confirmation writes into its template.         *)
create_order_confirmation(slots) ==
    LET contact == get_value(slots, "contact")
        goal == get_value(slots, "goal")
        budget == get_value(slots, "budget_band")
        deadline == get_value(slots, "deadline")
    IN  [goal |-> IF Truthy(goal) THEN goal ELSE "usluga",
         budget |-> IF Truthy(budget) THEN budget ELSE "utochnenie",
         deadline |-> IF Truthy(deadline) THEN deadline ELSE "utochnenie",
         contact |-> IF Truthy(contact) THEN contact ELSE "",
         phone |-> "company.phone"]

ClosingProcess(message, i, slots) ==
    LET new_slots == extract(message, <<>>)
        merged == IF Truthy(new_slots.slots["contact"].value)
                  THEN set_value(slots, "contact",
                                 new_slots.slots["contact"].value,
                                 ManualConfidence)
                  ELSE slots
    IN  [slots |-> merged,
         result |->
            IF Truthy(get_value(merged, "contact"))
            THEN StageResult(CLOSING, TRUE, "order_confirmation", None, FALSE, None)
            ELSE StageResult(CLOSING, FALSE, "ask_contact", CLOSING, FALSE, None)]

SupportProcess(message, i, slots) ==
    [slots |-> slots,
     result |->
        IF Truthy(get_value(slots, "order_id"))
        THEN StageResult(SUPPORT_STAGE, TRUE, "checking_order", None, FALSE, None)
        ELSE StageResult(SUPPORT_STAGE, TRUE, "ask_order_number", None, FALSE,
                         None)]

(* A complaints stage that hands off only once the order number is known. *)
ComplaintsProcessOnceOrderKnown(message, i, slots) ==
    [slots |-> slots,
     result |->
        IF Truthy(get_value(slots, "order_id"))
        THEN StageResult(COMPLAINTS_STAGE, TRUE, "complaint_form", None, TRUE,
                         "complaint_needs_manager")
        ELSE StageResult(COMPLAINTS_STAGE, TRUE, "complaint_form", None, FALSE,
                         None)]

ComplaintsProcess(message, i, slots) ==
    [slots |-> slots,
     result |-> StageResult(COMPLAINTS_STAGE, TRUE, "complaint_form", None, TRUE,
                            "complaint_needs_manager")]

RetentionProcess(message, i, slots) ==
    [slots |-> slots,
     result |-> StageResult(RETENTION, TRUE, "retention_nudge", None, FALSE, None)]

(* self.stages[handler].process(user_message, intent, slots, history)      *)
Process(handler, message, i, slots) ==
    CASE handler = ACQUISITION -> AcquisitionProcess(message, i, slots)
      [] handler = QUALIFICATION -> QualificationProcess(message, i, slots)
      [] handler = OFFER -> OfferProcess(message, i, slots)
      [] handler = CLOSING -> ClosingProcess(message, i, slots)
      [] handler = SUPPORT_STAGE -> SupportProcess(message, i, slots)
      [] handler = COMPLAINTS_STAGE -> ComplaintsProcess(message, i, slots)
      [] handler = RETENTION -> RetentionProcess(message, i, slots)

-----------------------------------------------------------------------------
(* funnel/router.py                                                        *)

determine_stage_by_intent_goal_inverted(i, funnel_context) ==
    IF i.group = "complaints" THEN COMPLAINTS_STAGE
    ELSE IF i.group = "privacy" THEN SUPPORT_STAGE
    ELSE IF i.group = "support" THEN SUPPORT_STAGE
    ELSE IF i.group = "transactions"
    THEN IF Truthy(get_value(funnel_context.slots, "goal"))
         THEN QUALIFICATION ELSE CLOSING
    ELSE IF i.group = "presales"
    THEN IF ~Truthy(get_value(funnel_context.slots, "goal"))
         THEN QUALIFICATION ELSE OFFER
    ELSE IF Truthy(funnel_context.current_stage)
    THEN funnel_context.current_stage
    ELSE ACQUISITION

determine_stage_by_intent(i, funnel_context) ==
    IF i.group = "complaints" THEN COMPLAINTS_STAGE
    ELSE IF i.group = "privacy" THEN SUPPORT_STAGE
    ELSE IF i.group = "support" THEN SUPPORT_STAGE
    ELSE IF i.group = "transactions"
    THEN IF Truthy(get_value(funnel_context.slots, "goal"))
         THEN CLOSING ELSE QUALIFICATION
    ELSE IF i.group = "presales"
    THEN IF ~Truthy(get_value(funnel_context.slots, "goal"))
         THEN QUALIFICATION ELSE OFFER
    ELSE IF Truthy(funnel_context.current_stage)
    THEN funnel_context.current_stage
    ELSE ACQUISITION

route_any_next_stage(funnel_context, message, i, now) ==
    LET current_stage == determine_stage_by_intent(i, funnel_context)
        moved == current_stage # funnel_context.current_stage
        ctx1 == IF moved
                THEN move_to_stage(funnel_context, current_stage, now + 1)
                ELSE funnel_context
        now1 == IF moved THEN now + 1 ELSE now
        handler == IF current_stage \in FunnelStage THEN current_stage
                   ELSE ACQUISITION
        out == Process(handler, message, i, ctx1.slots)
        ctx2 == [ctx1 EXCEPT !.slots = out.slots]
        again == out.result.next_stage # current_stage
        ctx3 == IF again
                THEN [ctx2 EXCEPT !.current_stage = out.result.next_stage,
                                  !.last_stage_change = now1 + 1]
                ELSE ctx2
    IN  [ctx |-> ctx3, result |-> out.result, current_stage |-> current_stage,
         handler |-> handler, now |-> IF again THEN now1 + 1 ELSE now1]

(* A router that records a transition before the handler on every call.    *)
route_always_moving(funnel_context, message, i, now) ==
    LET current_stage == determine_stage_by_intent(i, funnel_context)
        ctx1 == move_to_stage(funnel_context, current_stage, now + 1)
        now1 == now + 1
        handler == IF current_stage \in FunnelStage THEN current_stage
                   ELSE ACQUISITION
        out == Process(handler, message, i, ctx1.slots)
        ctx2 == [ctx1 EXCEPT !.slots = out.slots]
        again == Truthy(out.result.next_stage)
                 /\ out.result.next_stage # current_stage
        ctx3 == IF again
                THEN move_to_stage(ctx2, out.result.next_stage, now1 + 1)
                ELSE ctx2
    IN  [ctx |-> ctx3, result |-> out.result, current_stage |-> current_stage,
         handler |-> handler, now |-> IF again THEN now1 + 1 ELSE now1]

(* The context after the call, the StageResult, the stage chosen from the  *)
(* intent, the stage whose handler ran and the clock readings taken.       *)
route(funnel_context, message, i, now) ==
    LET current_stage == determine_stage_by_intent(i, funnel_context)
        moved == current_stage # funnel_context.current_stage
        ctx1 == IF moved
                THEN move_to_stage(funnel_context, current_stage, now + 1)
                ELSE funnel_context
        now1 == IF moved THEN now + 1 ELSE now
        handler == IF current_stage \in FunnelStage THEN current_stage
                   ELSE ACQUISITION
        out == Process(handler, message, i, ctx1.slots)
        ctx2 == [ctx1 EXCEPT !.slots = out.slots]
        again == Truthy(out.result.next_stage)
                 /\ out.result.next_stage # current_stage
        ctx3 == IF again
                THEN move_to_stage(ctx2, out.result.next_stage, now1 + 1)
                ELSE ctx2
    IN  [ctx |-> ctx3, result |-> out.result, current_stage |-> current_stage,
         handler |-> handler, now |-> IF again THEN now1 + 1 ELSE now1]

-----------------------------------------------------------------------------
(* Inputs of the pure functions.                                           *)

MaxKw == 2
MaxWords == 6

(* The phrases texts are built from: every keyword that contains or is     *)
(* contained in another keyword, and the first keyword of every intent.    *)
Vocabulary ==
    {k \in Keywords :
        \E q \in Within : q[1] \in Keywords /\ q[2] \in Keywords
                          /\ (k = q[1] \/ k = q[2])}
    \cup {all_intents[i].keywords[1] : i \in 1..Len(all_intents)}

RECURSIVE PhraseSets(_)
PhraseSets(k) ==
    IF k = 0 THEN {{}}
    ELSE LET smaller == PhraseSets(k - 1)
         IN  smaller \cup {G \cup {p} : G \in smaller, p \in Vocabulary}

ConfidenceValues == {0, 84, 2519, 2520, 2521, 4200, 8400}

ArbitraryIntents ==
    {Intent(n, p, c, g) :
        n \in IntentNames \cup {"general", "legal"},
        p \in IntentPriority, c \in {84, 4200}, g \in Groups}

NoFunnel == [u \in {} |-> None]

IdleRest ==
    /\ funnel_contexts = NoFunnel
    /\ clock = 0
    /\ route_call = <<>>
    /\ turns = <<>>
    /\ messages = <<>>
    /\ tickets = <<>>
    /\ outbox = {}
    /\ call = NoCall
    /\ chat = NoChat
    /\ IdleCalls

-----------------------------------------------------------------------------
(* EscalationRules.should_escalate on arbitrary intents and confidences.   *)

InitEsc ==
    /\ text = NoText
    /\ intent \in ArbitraryIntents
    /\ confidence \in ConfidenceValues \cup {NoConfidence}
    /\ escalation = NoEscalation
    /\ IdleRest

ShouldEscalate ==
    /\ text = NoText
    /\ intent # NoIntent
    /\ escalation = NoEscalation
    /\ escalation' = should_escalate(intent,
            IF confidence = NoConfidence THEN DefaultConfidenceArg ELSE confidence)
    /\ UNCHANGED <<llmVars, callVars, text, intent, confidence, funnelVars, turnVars>>

NextEsc == ShouldEscalate

SpecEsc == InitEsc /\ [][NextEsc]_vars

-----------------------------------------------------------------------------
(* IntentClassifier.classify on texts, followed by the escalation check    *)
(* as chat_new.handle_text_message makes it.                               *)

InitClassify ==
    /\ \E G \in PhraseSets(MaxKw) :
          \E w \in MinWords(Closure(G))..MaxWords :
              text = [contains |-> Closure(G), words |-> w]
    /\ intent = NoIntent
    /\ confidence = NoConfidence
    /\ escalation = NoEscalation
    /\ IdleRest

Classify ==
    /\ text # NoText
    /\ intent = NoIntent
    /\ intent' = classify(text)
    /\ UNCHANGED <<llmVars, callVars, text, confidence, escalation, funnelVars, turnVars>>

EscalateClassified ==
    /\ text # NoText
    /\ intent # NoIntent
    /\ escalation = NoEscalation
    /\ confidence' = intent.confidence
    /\ escalation' = should_escalate(intent, intent.confidence)
    /\ UNCHANGED <<llmVars, callVars, text, intent, funnelVars, turnVars>>

NextClassify == Classify \/ EscalateClassified

SpecClassify == InitClassify /\ [][NextClassify]_vars

-----------------------------------------------------------------------------
(* FunnelRouter.route called repeatedly on one context, which is the one   *)
(* handed in or the one chat_new creates for a user that has none.         *)

MaxClock == 2

create_context(contexts, user_id) ==
    FunnelContext(user_id, ACQUISITION, SlotCollection(<<>>))

get_shared_context(contexts, user_id) ==
    IF contexts # NoFunnel THEN contexts[CHOOSE v \in DOMAIN contexts : TRUE]
    ELSE FunnelContext(user_id, ACQUISITION, SlotCollection(<<>>))

(* if user_id not in _funnel_contexts: _funnel_contexts[user_id] = ...     *)
get_or_create_context(contexts, user_id) ==
    IF user_id \in DOMAIN contexts THEN contexts[user_id]
    ELSE FunnelContext(user_id, ACQUISITION, SlotCollection(<<>>))

Message(contains, order_id, budget_band, deadline, phone, email) ==
    [contains |-> Closure(contains), words |-> MinWords(contains),
     order_id |-> order_id, budget_band |-> budget_band,
     deadline |-> deadline, phone |-> phone, email |-> email]

RouteMessages ==
    {Message({}, None, None, None, None, None),
     Message({"privet"}, None, None, None, None, None),
     Message({"chem zanimaetes"}, None, None, None, None, None),
     Message({"oformit"}, None, None, None, None, None),
     Message({"sozdat"}, None, None, None, None, None),
     Message({"sdelat sajt"}, None, "50000 rub", "zavtra", None, None),
     Message({}, None, "50000 rub", None, None, None),
     Message({}, None, None, None, None, "user@example.com"),
     Message({}, None, None, None, "+79991234567", "user@example.com"),
     Message({"gde zakaz"}, "12345", None, None, None, None)}

RouteIntents ==
    {Intent("abuse", SECURITY, 4200, "security"),
     Intent("privacy_request", PRIVACY, 4200, "privacy"),
     Intent("refund_request", COMPLAINTS, 4200, "complaints"),
     Intent("buy", TRANSACTIONS, 4200, "transactions"),
     Intent("pricing_request", PRESALES, 4200, "presales"),
     Intent("status", SUPPORT, 4200, "support"),
     Intent("greet", NAVIGATION, 4200, "navigation"),
     Intent("menu", NAVIGATION, 4200, "navigation"),
     DefaultIntent}

Preset(value) == {NoSlot, [value |-> value, confidence |-> ManualConfidence]}

InitialSlots ==
    {[slots |-> [EmptySlots EXCEPT !["goal"] = g, !["contact"] = c,
                                   !["order_id"] = o],
      required_slots |-> <<>>] :
        g \in Preset("razrabotka"), c \in Preset("user@example.com"),
        o \in Preset("12345")}

InitRoute ==
    /\ text = NoText
    /\ intent = NoIntent
    /\ confidence = NoConfidence
    /\ escalation = NoEscalation
    /\ \/ \E st \in FunnelStage, sl \in InitialSlots :
             funnel_contexts = [u \in {1} |-> FunnelContext(1, st, sl)]
       \/ funnel_contexts = NoFunnel
    /\ clock = 0
    /\ route_call = <<>>
    /\ turns = <<>>
    /\ messages = <<>>
    /\ tickets = <<>>
    /\ outbox = {}
    /\ call = NoCall
    /\ chat = NoChat
    /\ IdleCalls

(* The context of the user is fetched, or created at the acquisition stage *)
(* where the user has none, and handed to route.  The record of the call   *)
(* keeps, for a call the acquisition handler served, whether the message   *)
(* holds a greeting and whether it holds a browsing phrase.                *)
Route(u, message, i) ==
    /\ clock < MaxClock
    /\ LET before == get_or_create_context(funnel_contexts, u)
           r == route(before, message, i, clock)
       IN  /\ funnel_contexts' =
                 [v \in DOMAIN funnel_contexts \cup {u} |->
                     IF v = u THEN r.ctx ELSE funnel_contexts[v]]
           /\ clock' = r.now
           /\ route_call' =
                 << [user_id |-> u, group |-> i.group, name |-> i.name,
                     created |-> u \notin DOMAIN funnel_contexts,
                     greeting |-> r.handler = ACQUISITION
                                  /\ AnyIn(greetings, message.contains),
                     browsing |-> r.handler = ACQUISITION
                                  /\ AnyIn(browsing_keywords, message.contains),
                     stage_before |-> before.current_stage,
                     goal_before |-> get_value(before.slots, "goal"),
                     contact_before |-> get_value(before.slots, "contact"),
                     email |-> message.email,
                     current_stage |-> r.current_stage,
                     handler |-> r.handler, result |-> r.result] >>
    /\ UNCHANGED <<llmVars, callVars, nluVars, turnVars>>

NextRoute == \E message \in RouteMessages, i \in RouteIntents : Route(1, message, i)

SpecRoute == InitRoute /\ [][NextRoute]_vars

-----------------------------------------------------------------------------
(* handoff/ticket_manager.py                                               *)

get_priority_by_type(ticket_type) ==
    CASE ticket_type \in {"privacy", "legal", "refund"} -> "P1"
      [] ticket_type = "complaint" -> "P2"
      [] OTHER -> "P3"

(* Hours added to the creation time by _calculate_sla_deadline.            *)
sla_hours(priority) ==
    CASE priority = "P1" -> 4
      [] priority = "P2" -> 24
      [] OTHER -> 72

default_action(ticket_type) ==
    CASE ticket_type = "privacy" -> "process_data_request"
      [] ticket_type = "legal" -> "legal_review"
      [] ticket_type = "refund" -> "process_refund"
      [] ticket_type = "complaint" -> "investigate_complaint"
      [] ticket_type = "sales_lead" -> "call_back"
      [] OTHER -> "review"

(* The ticket create_ticket stores; turn is the handler invocation that    *)
(* asked for it.                                                           *)
create_ticket(ticket_id, turn, ticket_type, user_id, requested_action) ==
    LET priority == get_priority_by_type(ticket_type)
    IN  [ticket_id |-> ticket_id, turn |-> turn, ticket_type |-> ticket_type,
         priority |-> priority, sla_hours |-> sla_hours(priority),
         user_id |-> user_id, status |-> "open",
         requested_action |-> IF requested_action # "" THEN requested_action
                              ELSE default_action(ticket_type)]

-----------------------------------------------------------------------------
(* bot/handlers/chat_new.py: handle_text_message, one invocation per       *)
(* inbound text message.  main.py starts Dispatcher.start_polling, which   *)
(* hands every update to the handler in a task of its own, so several      *)
(* invocations are in progress at once and the event loop switches between *)
(* them where one of them awaits storage, the network or the model.  An    *)
(* action is the code between two such awaits; the awaits of the event     *)
(* logger are taken together with the step that follows them.              *)

MaxTurns == 2

Users == {1, 2}

(* ticket_type_map of handle_escalation, looked up by intent.group.        *)
ticket_type_map ==
    [k \in {"privacy", "refund_request", "complaint", "legal"} |->
        CASE k = "privacy" -> "privacy"
          [] k = "refund_request" -> "refund"
          [] k = "complaint" -> "complaint"
          [] k = "legal" -> "legal"]

escalation_ticket_type(i) ==
    IF i.group \in DOMAIN ticket_type_map THEN ticket_type_map[i.group]
    ELSE "sales_lead"

(* An inbound message: the text, what the extractor's patterns find in it  *)
(* (a budget of 50000 rub in a text with the letter "k", as in "zakazat",  *)
(* is found as "50000000 rub"),                                            *)
(* and whether the knowledge base holds an entry scoring at least 0.7 for  *)
(* it (quick_faq_check).                                                   *)
Update(contains, words, order_id, budget_band, deadline, phone, email, faq) ==
    [message |-> [contains |-> Closure(contains), words |-> words,
                  order_id |-> order_id, budget_band |-> budget_band,
                  deadline |-> deadline, phone |-> phone, email |-> email],
     faq |-> faq]

Updates ==
    {Update({"vernut", "zakaz"}, 4, "12345", None, None, None, None, TRUE),
     Update({"skolko stoit"}, 3, None, None, None, None, None, TRUE),
     Update({"hochu zakazat", "sdelat sajt"}, 7, None, "50000000 rub", "zavtra",
            None, "user@example.com", FALSE),
     Update({"status"}, 4, None, None, None, "+79991234567", None, FALSE),
     Update({"hochu zakazat"}, 6, None, "50000000 rub", "zavtra", None, None,
            FALSE)}

NoResult == StageResult(None, FALSE, "", None, FALSE, None)

NoReply == <<>>

Ended == {"done", "raised"}

(* not ai_response or len(ai_response) < 20: every template of the stages  *)
(* is longer than that, so only the empty text is too short.               *)
needs_generation(response_text) == response_text = ""

(* Which of the three paths a classified turn takes.                       *)
BranchFaqFirst(esc, quick_result) ==
    IF quick_result THEN "faq"
    ELSE IF esc.escalate THEN "escalate"
    ELSE "funnel"

BranchSkipFaq(esc, quick_result) ==
    IF esc.escalate THEN "escalate" ELSE "funnel"

Branch(esc, quick_result) ==
    IF esc.escalate THEN "escalate"
    ELSE IF quick_result THEN "faq"
    ELSE "funnel"

Turn(user_id, update) ==
    [user_id |-> user_id, message |-> update.message, faq |-> update.faq,
     pc |-> "save_user_message", intent |-> NoIntent,
     stage_result |-> NoResult, ticket_type |-> None, reply |-> NoReply,
     did |-> {}, error |-> None]

Init ==
    /\ text = NoText
    /\ intent = NoIntent
    /\ confidence = NoConfidence
    /\ escalation = NoEscalation
    /\ funnel_contexts = NoFunnel
    /\ clock = 0
    /\ route_call = <<>>
    /\ turns = <<>>
    /\ messages = [u \in Users |-> <<>>]
    /\ tickets = <<>>
    /\ outbox = {}
    /\ call = NoCall
    /\ chat = NoChat
    /\ IdleCalls

At(t, pc) == t \in DOMAIN turns /\ turns[t].pc = pc

(* The dispatcher starts the handler for the next inbound text message.    *)
(* Users are interchangeable: the first message is taken to be user 1's.   *)
Dispatch(u, update) ==
    /\ Len(turns) < MaxTurns
    /\ u <= Len(turns) + 1
    /\ turns' = Append(turns, Turn(u, update))
    /\ UNCHANGED <<llmVars, callVars, nluVars, funnelVars, messages, tickets, outbox>>

(* context.save_message(user_id, "user", text): the row is stored, or the  *)
(* store raises and the exception leaves the handler.                      *)
SaveUserMessage(t, stored) ==
    /\ At(t, "save_user_message")
    /\ IF stored
       THEN /\ messages' = [messages EXCEPT ![turns[t].user_id] =
                               Append(@, [role |-> "user", turn |-> t])]
            /\ turns' = [turns EXCEPT ![t].pc = "get_context",
                                      ![t].did = @ \cup {"save_message"}]
       ELSE /\ messages' = messages
            /\ turns' = [turns EXCEPT ![t].pc = "raised",
                                      ![t].error = "save_message"]
    /\ UNCHANGED <<llmVars, callVars, nluVars, funnelVars, tickets, outbox>>

(* context.get_context(user_id, limit=10), then classify.  The history    *)
(* read is handed to classify, extract, route and the stages, none of      *)
(* which looks at it, so the turn keeps no copy of it.                     *)
LoadAndClassify(t) ==
    /\ At(t, "get_context")
    /\ turns' = [turns EXCEPT
          ![t].intent = classify(turns[t].message),
          ![t].did = @ \cup {"get_context", "classify"},
          ![t].pc = "should_escalate"]
    /\ UNCHANGED <<llmVars, callVars, nluVars, funnelVars, messages, tickets, outbox>>

Escalation(t) == should_escalate(turns[t].intent, turns[t].intent.confidence)

(* if should_escalate: handle_escalation(...), up to the ticket store.     *)
Escalate(t) ==
    /\ At(t, "should_escalate")
    /\ Branch(Escalation(t), turns[t].faq) = "escalate"
    /\ turns' = [turns EXCEPT
          ![t].ticket_type = escalation_ticket_type(turns[t].intent),
          ![t].reply = get_escalation_message(turns[t].intent),
          ![t].did = @ \cup {"should_escalate", "handle_escalation"},
          ![t].pc = "create_ticket"]
    /\ UNCHANGED <<llmVars, callVars, nluVars, funnelVars, messages, tickets, outbox>>

(* quick_faq_check found an entry: its answer is the reply.                *)
FaqFastPath(t) ==
    /\ At(t, "should_escalate")
    /\ Branch(Escalation(t), turns[t].faq) = "faq"
    /\ turns' = [turns EXCEPT
          ![t].reply = <<"faq_answer">>,
          ![t].did = @ \cup {"should_escalate", "quick_faq_check"},
          ![t].pc = "save_reply"]
    /\ UNCHANGED <<llmVars, callVars, nluVars, funnelVars, messages, tickets, outbox>>

(* Get or create the user's FunnelContext, merge the extracted slots,      *)
(* route, and choose what follows from the StageResult.                    *)
Funnel(t) ==
    /\ At(t, "should_escalate")
    /\ Branch(Escalation(t), turns[t].faq) = "funnel"
    /\ LET tr == turns[t]
           u == tr.user_id
           known == u \in DOMAIN funnel_contexts
           ctx0 == get_or_create_context(funnel_contexts, u)
           extracted_slots == extract(tr.message, <<>>)
           ctx1 == [ctx0 EXCEPT !.slots = merge_extracted(@, extracted_slots)]
           r == route(ctx1, tr.message, tr.intent, clock)
           response == r.result.response_text
       IN  /\ funnel_contexts' =
                 [v \in DOMAIN funnel_contexts \cup {u} |->
                     IF v = u THEN r.ctx ELSE funnel_contexts[v]]
           /\ clock' = r.now
           /\ route_call' = route_call
           /\ turns' = [turns EXCEPT
                 ![t].stage_result = r.result,
                 ![t].did = @ \cup
                      ({"should_escalate", "quick_faq_check", "slot_merge",
                        "route", "process"}
                       \cup (IF known THEN {} ELSE {"create_context"})
                       \cup (IF r.ctx # ctx0 THEN {"mutate_context"} ELSE {})),
                 ![t].ticket_type =
                      IF r.result.requires_handoff THEN "sales_lead" ELSE None,
                 ![t].reply =
                      IF r.result.requires_handoff
                      THEN (IF response # "" THEN <<"stage", response>>
                            ELSE <<"handoff_default">>)
                      ELSE IF needs_generation(response) THEN NoReply
                      ELSE <<"stage", response>>,
                 ![t].pc =
                      IF r.result.requires_handoff THEN "create_ticket"
                      ELSE IF needs_generation(response) THEN "check_health"
                      ELSE "save_reply"]
    /\ UNCHANGED <<llmVars, callVars, nluVars, messages, tickets, outbox>>

(* ticket_manager.create_ticket(...) and log_ticket_created.               *)
CreateTicket(t) ==
    /\ At(t, "create_ticket")
    /\ tickets' = Append(tickets,
          create_ticket(Len(tickets) + 1, t, turns[t].ticket_type,
                        turns[t].user_id,
                        IF "handle_escalation" \in turns[t].did
                        THEN turns[t].intent.name ELSE ""))
    /\ turns' = [turns EXCEPT ![t].did = @ \cup {"create_ticket"},
                              ![t].pc = "answer"]
    /\ UNCHANGED <<llmVars, callVars, nluVars, funnelVars, messages, outbox>>

(* generate_ai_response: ollama_client.check_health() answers False and    *)
(* the apology is the reply, or True and the indicator is started next.    *)
CheckHealth(t, is_available) ==
    /\ At(t, "check_health")
    /\ turns' = [turns EXCEPT
          ![t].did = @ \cup {"check_health"},
          ![t].reply = IF is_available THEN NoReply ELSE <<"ai_unavailable">>,
          ![t].pc = IF is_available THEN "start_loading" ELSE "save_reply"]
    /\ UNCHANGED <<llmVars, callVars, nluVars, funnelVars, messages, tickets, outbox>>

(* LoadingIndicator.start(message) sends the indicator message.            *)
StartLoading(t) ==
    /\ At(t, "start_loading")
    /\ outbox' = outbox \cup {[turn |-> t, user_id |-> turns[t].user_id,
                                kind |-> "loading", text |-> <<"loading">>]}
    /\ turns' = [turns EXCEPT ![t].did = @ \cup {"loading"},
                              ![t].pc = "generate"]
    /\ UNCHANGED <<llmVars, callVars, nluVars, funnelVars, messages, tickets>>

(* The prompt is built and ollama_client.generate is looked up: the client *)
(* has no attribute of that name, so AttributeError is raised.  It is not  *)
(* asyncio.TimeoutError; the finally clause stops the indicator, which     *)
(* deletes its message, and the exception leaves the handler.              *)
Generate(t) ==
    /\ At(t, "generate")
    /\ outbox' = {m \in outbox : ~(m.turn = t /\ m.kind = "loading")}
    /\ turns' = [turns EXCEPT ![t].did = @ \cup {"generate"},
                              ![t].error = "AttributeError",
                              ![t].pc = "raised"]
    /\ UNCHANGED <<llmVars, callVars, nluVars, funnelVars, messages, tickets>>

(* context.save_message(user_id, "assistant", ai_response)                 *)
SaveReply(t, stored) ==
    /\ At(t, "save_reply")
    /\ IF stored
       THEN /\ messages' = [messages EXCEPT ![turns[t].user_id] =
                               Append(@, [role |-> "assistant", turn |-> t])]
            /\ turns' = [turns EXCEPT ![t].pc = "answer"]
       ELSE /\ messages' = messages
            /\ turns' = [turns EXCEPT ![t].pc = "raised",
                                      ![t].error = "save_message"]
    /\ UNCHANGED <<llmVars, callVars, nluVars, funnelVars, tickets, outbox>>

(* message.answer(...): the escalation message, the stage's handoff        *)
(* notice or the reply.                                                    *)
Answer(t) ==
    /\ At(t, "answer")
    /\ outbox' = outbox \cup
          {[turn |-> t, user_id |-> turns[t].user_id,
            kind |-> IF "handle_escalation" \in turns[t].did THEN "escalation"
                     ELSE IF "create_ticket" \in turns[t].did THEN "handoff"
                     ELSE "reply",
            text |-> turns[t].reply]}
    /\ turns' = [turns EXCEPT ![t].pc = "done"]
    /\ UNCHANGED <<llmVars, callVars, nluVars, funnelVars, messages, tickets>>

Next ==
    \/ \E u \in Users, update \in Updates : Dispatch(u, update)
    \/ \E t \in 1..MaxTurns :
          \/ \E stored \in BOOLEAN : SaveUserMessage(t, stored)
          \/ LoadAndClassify(t)
          \/ Escalate(t)
          \/ FaqFastPath(t)
          \/ Funnel(t)
          \/ CreateTicket(t)
          \/ \E is_available \in BOOLEAN : CheckHealth(t, is_available)
          \/ StartLoading(t)
          \/ Generate(t)
          \/ \E stored \in BOOLEAN : SaveReply(t, stored)
          \/ Answer(t)

Spec == Init /\ [][Next]_vars

-----------------------------------------------------------------------------
(* The handlers and the background task that delete history, running       *)
(* beside the turns: /reset (bot/handlers/start.py), /delete_data          *)
(* (bot/handlers/privacy.py) and the hourly cleanup_task of main.py.       *)

(* ConversationContext.clear_context: DELETE FROM messages WHERE user_id.  *)
clear_context(history, user_id) == [history EXCEPT ![user_id] = <<>>]

Notice(user_id, kind) ==
    [turn |-> 0, user_id |-> user_id, kind |-> kind, text |-> <<kind>>]

cmd_reset(user_id) ==
    /\ messages' = clear_context(messages, user_id)
    /\ outbox' = outbox \cup {Notice(user_id, "history_cleared")}
    /\ UNCHANGED <<llmVars, callVars, nluVars, funnelVars, turns, tickets>>

handle_delete_data_command(user_id) ==
    /\ messages' = clear_context(messages, user_id)
    /\ outbox' = outbox \cup {Notice(user_id, "history_deleted")}
    /\ UNCHANGED <<llmVars, callVars, nluVars, funnelVars, turns, tickets>>

(* ConversationContext.cleanup_old_messages: every row older than the      *)
(* cutoff is deleted; rows are stored in time order, so each user loses    *)
(* the first rows of the history, as many as are older than the cutoff.    *)
cleanup_old_messages(too_old) ==
    /\ \E u \in Users : too_old[u] > 0
    /\ \A u \in Users : too_old[u] <= Len(messages[u])
    /\ messages' = [u \in Users |->
                       SubSeq(messages[u], too_old[u] + 1, Len(messages[u]))]
    /\ UNCHANGED <<llmVars, callVars, nluVars, funnelVars, turns, tickets,
                   outbox>>

MaxLifeTurns == 1

(* A context an earlier turn left behind: user 1 ordered, named a goal, a  *)
(* budget, a deadline and a contact, and stands at the closing stage; the  *)
(* two rows of that turn are in the history.                               *)
EarlierContext ==
    LET slots == merge_extracted(SlotCollection(<<>>),
                    extract(Message({"sdelat sajt"}, None, "50000 rub", "zavtra",
                                    None, "user@example.com"), <<>>))
        ctx == FunnelContext(1, ACQUISITION, slots)
    IN  move_to_stage(ctx, CLOSING, 1)

EarlierRows == <<[role |-> "user", turn |-> 0], [role |-> "assistant", turn |-> 0]>>

InitLife ==
    /\ text = NoText
    /\ intent = NoIntent
    /\ confidence = NoConfidence
    /\ escalation = NoEscalation
    /\ \/ /\ funnel_contexts = NoFunnel
          /\ clock = 0
          /\ messages = [u \in Users |-> <<>>]
       \/ /\ funnel_contexts = [u \in {1} |-> EarlierContext]
          /\ clock = 1
          /\ messages = [u \in Users |-> IF u = 1 THEN EarlierRows ELSE <<>>]
    /\ route_call = <<>>
    /\ turns = <<>>
    /\ tickets = <<>>
    /\ outbox = {}
    /\ call = NoCall
    /\ chat = NoChat
    /\ IdleCalls

DispatchLife(u, update) ==
    /\ Len(turns) < MaxLifeTurns
    /\ Dispatch(u, update)

NextLife ==
    \/ \E u \in Users, update \in Updates : DispatchLife(u, update)
    \/ \E t \in 1..MaxTurns :
          \/ \E stored \in BOOLEAN : SaveUserMessage(t, stored)
          \/ LoadAndClassify(t)
          \/ Escalate(t)
          \/ FaqFastPath(t)
          \/ Funnel(t)
          \/ CreateTicket(t)
          \/ \E is_available \in BOOLEAN : CheckHealth(t, is_available)
          \/ StartLoading(t)
          \/ Generate(t)
          \/ \E stored \in BOOLEAN : SaveReply(t, stored)
          \/ Answer(t)
    \/ \E u \in Users : cmd_reset(u)
    \/ \E u \in Users : handle_delete_data_command(u)
    \/ \E a \in 0..Len(messages[1]), b \in 0..Len(messages[2]) :
          cleanup_old_messages([u \in Users |-> IF u = 1 THEN a ELSE b])

SpecLife == InitLife /\ [][NextLife]_vars

-----------------------------------------------------------------------------
(* ai/ollama_client.py: the retry loop of generate_response, chat and      *)
(* chat_stream.  One POST comes to one of: status 200 with a readable      *)
(* body, status 200 whose body cannot be read (response.json() or the      *)
(* line iterator raises), a 4xx status, a 5xx status, asyncio.TimeoutError *)
(* or another exception of the HTTP client.                                *)

MaxRetries == 3

Methods == {"generate_response", "chat", "chat_stream"}

Outcomes == {"200", "200_unreadable", "4xx", "5xx", "timeout", "error"}

(* What the loop body does with an outcome: return the text, return None,  *)
(* or reach the (guarded) sleep and go round the loop again.               *)
generate_response_branch(outcome) ==
    CASE outcome = "200" -> "return_text"
      [] outcome = "5xx" -> "retry"
      [] outcome = "4xx" -> "return_none"
      [] OTHER -> "retry"

chat_branch(outcome) ==
    CASE outcome = "200" -> "return_text"
      [] outcome = "5xx" -> "retry"
      [] outcome = "4xx" -> "return_none"
      [] OTHER -> "retry"

(* The 4xx branch raises Exception inside the try block of the loop body,  *)
(* where the handler `except Exception` of the same loop body catches it.  *)
chat_stream_branch(outcome) ==
    CASE outcome = "200" -> "return_text"
      [] outcome = "5xx" -> "retry"
      [] outcome = "4xx" -> "retry"
      [] OTHER -> "retry"

on_response(method, outcome) ==
    CASE method = "generate_response" -> generate_response_branch(outcome)
      [] method = "chat" -> chat_branch(outcome)
      [] method = "chat_stream" -> chat_stream_branch(outcome)

sleeps_after_every_attempt(attempt, max_retries) == TRUE

(* if attempt < max_retries - 1: await asyncio.sleep(2 ** attempt)         *)
sleeps_before_retry(attempt, max_retries) == attempt < max_retries - 1

(* After the loop: return None, or for chat_stream raise Exception.        *)
on_exhaustion(method) == IF method = "chat_stream" THEN "raised" ELSE None

Event(kind, attempt, status, seconds) ==
    [kind |-> kind, attempt |-> attempt, status |-> status, seconds |-> seconds]

Call(method, max_retries) ==
    [method |-> method, max_retries |-> max_retries, attempt |-> 0,
     pc |-> "for", log |-> <<>>, result |-> "pending"]

InitOllama ==
    /\ text = NoText
    /\ intent = NoIntent
    /\ confidence = NoConfidence
    /\ escalation = NoEscalation
    /\ funnel_contexts = NoFunnel
    /\ clock = 0
    /\ route_call = <<>>
    /\ turns = <<>>
    /\ messages = <<>>
    /\ tickets = <<>>
    /\ outbox = {}
    /\ \E method \in Methods, max_retries \in 0..MaxRetries :
          call = Call(method, max_retries)
    /\ chat = NoChat
    /\ IdleCalls

(* One pass through the loop body: the POST and what follows from it, up   *)
(* to the return or to the sleep.                                          *)
Post(outcome) ==
    /\ call.method \in Methods
    /\ call.pc = "for"
    /\ call.attempt < call.max_retries
    /\ LET branch == on_response(call.method, outcome)
           sent == [call EXCEPT !.log =
                       Append(@, Event("request", call.attempt, outcome, 0))]
       IN  call' =
              CASE branch = "return_text" ->
                      [sent EXCEPT !.pc = "done", !.result = "text"]
                [] branch = "return_none" ->
                      [sent EXCEPT !.pc = "done", !.result = None]
                [] OTHER ->
                      IF sleeps_before_retry(call.attempt, call.max_retries)
                      THEN [sent EXCEPT !.pc = "sleep"]
                      ELSE [sent EXCEPT !.attempt = @ + 1]
    /\ UNCHANGED <<nluVars, funnelVars, turnVars, chat, callVars>>

(* await asyncio.sleep(2 ** attempt), then the next iteration.             *)
Backoff ==
    /\ call.method \in Methods
    /\ call.pc = "sleep"
    /\ call' = [call EXCEPT
          !.log = Append(@, Event("sleep", call.attempt, None, 2 ^ call.attempt)),
          !.attempt = @ + 1,
          !.pc = "for"]
    /\ UNCHANGED <<nluVars, funnelVars, turnVars, chat, callVars>>

(* range(max_retries) is used up.                                          *)
Exhausted ==
    /\ call.method \in Methods
    /\ call.pc = "for"
    /\ call.attempt >= call.max_retries
    /\ call' = [call EXCEPT !.pc = "done", !.result = on_exhaustion(call.method)]
    /\ UNCHANGED <<nluVars, funnelVars, turnVars, chat, callVars>>

NextOllama ==
    \/ \E outcome \in Outcomes : Post(outcome)
    \/ Backoff
    \/ Exhausted

(* Every POST carries a total timeout and every sleep is finite, so a call *)
(* that can take a step eventually takes one.                              *)
SpecOllama == InitOllama /\ [][NextOllama]_vars /\ WF_vars(NextOllama)

-----------------------------------------------------------------------------
(* bot/handlers/chat.py: handle_text_message, the FAQ/LLM handler that     *)
(* main.py registers.  A reply text is named by what produces it; None and *)
(* "" are Python's None and the empty string.  Answers and phrases of the  *)
(* knowledge base are taken to be non-empty texts.                         *)

(* utils/smart_fallback.py: the pattern lists a query can match.           *)
PatternGroups ==
    {"GREETING_PATTERNS", "CLARIFICATION_PATTERNS", "GENERAL_COMPANY_QUESTIONS",
     "DETAIL_REQUESTS", "PRICING_QUESTIONS"}

Topics == {None, "services", "pricing", "timing", "contacts"}

detect_general_intent(matched) ==
    IF "GREETING_PATTERNS" \in matched THEN "greeting"
    ELSE IF "CLARIFICATION_PATTERNS" \in matched THEN "clarification"
    ELSE IF "GENERAL_COMPANY_QUESTIONS" \in matched THEN "company_overview"
    ELSE IF "DETAIL_REQUESTS" \in matched THEN "more_details"
    ELSE IF "PRICING_QUESTIONS" \in matched THEN "pricing_overview"
    ELSE None

generate_fallback_response(general_intent, last_topic) ==
    CASE general_intent = "greeting" -> "greeting_response"
      [] general_intent = "clarification" -> "company_overview"
      [] general_intent = "company_overview" -> "company_overview"
      [] general_intent = "more_details" ->
            (IF last_topic = "services" THEN "services_details"
             ELSE IF last_topic = "pricing" THEN "pricing_overview"
             ELSE "company_overview")
      [] general_intent = "pricing_overview" -> "pricing_overview"
      [] OTHER -> None

(* knowledge/search.py, one result: the item's answer.                     *)
format_faq_results(found_faq) == IF found_faq THEN "search_answer" ELSE ""

fallback_reply_general_first(found_faq, matched, last_topic) ==
    LET general_intent == detect_general_intent(matched)
    IN  IF general_intent # None
        THEN generate_fallback_response(general_intent, last_topic)
        ELSE IF found_faq THEN format_faq_results(found_faq)
        ELSE "contact_message"

(* The block `if not ai_response:` after the LLM attempt: search_faq with  *)
(* min_score 0.2, then the general intent, then phrases.not_found filled   *)
(* with the company's phone, email and telegram handle.                    *)
fallback_reply(found_faq, matched, last_topic) ==
    IF found_faq THEN format_faq_results(found_faq)
    ELSE LET general_intent == detect_general_intent(matched)
             ai_response == IF general_intent # None
                            THEN generate_fallback_response(general_intent,
                                                            last_topic)
                            ELSE None
         IN  IF ~Truthy(ai_response) THEN "contact_message" ELSE ai_response

StreamOutcomes == {"text", "empty_no_token", "empty_after_tokens", "raised"}

ChatOutcomes == {"text", "", None}

ChatEnded == {"done", "raised"}

ChatTurn(quick, found_faq, matched, last_topic) ==
    [pc |-> "save_user_message", quick |-> quick, found_faq |-> found_faq,
     matched |-> matched, last_topic |-> last_topic, ai_response |-> None,
     health |-> None, stream |-> None, chat_calls |-> 0,
     llm_text |-> FALSE, status_msg |-> FALSE,
     animation |-> "none", animation_stopped |-> FALSE,
     used_streaming |-> FALSE, saved |-> <<>>, sent |-> None,
     error |-> None]

(* A hit of quick_faq_check (score >= 0.75) is also a hit of search_faq    *)
(* (score >= 0.2): both use calculate_relevance on the same query.         *)
InitChat ==
    /\ text = NoText
    /\ intent = NoIntent
    /\ confidence = NoConfidence
    /\ escalation = NoEscalation
    /\ funnel_contexts = NoFunnel
    /\ clock = 0
    /\ route_call = <<>>
    /\ turns = <<>>
    /\ messages = <<>>
    /\ tickets = <<>>
    /\ outbox = {}
    /\ call = NoCall
    /\ IdleCalls
    /\ \E quick \in BOOLEAN, found_faq \in BOOLEAN,
          matched \in SUBSET PatternGroups, last_topic \in Topics :
          /\ quick => found_faq
          /\ chat = ChatTurn(quick, found_faq, matched, last_topic)

ChatAt(pc) == chat.pc = pc

ChatFrame == UNCHANGED <<nluVars, funnelVars, turnVars, call, callVars>>

(* context.save_message(user_id, "user", text) and get_context.            *)
ChatSaveUserMessage(stored) ==
    /\ ChatAt("save_user_message")
    /\ chat' = IF stored
               THEN [chat EXCEPT !.saved = Append(@, <<"user", "question">>),
                                 !.pc = "quick_faq_check"]
               ELSE [chat EXCEPT !.pc = "raised", !.error = "save_message"]
    /\ ChatFrame

(* quick_faq_check(user_question, knowledge_base, min_score=0.75): a hit   *)
(* gives the answer and `if not ai_response` skips the LLM and the         *)
(* fallback search.                                                        *)
ChatQuickFaq ==
    /\ ChatAt("quick_faq_check")
    /\ chat' = IF chat.quick
               THEN [chat EXCEPT !.ai_response = "faq_answer",
                                 !.pc = "save_reply"]
               ELSE [chat EXCEPT !.pc = "check_health"]
    /\ ChatFrame

(* ollama_client.check_health()                                            *)
ChatCheckHealth(is_ollama_available) ==
    /\ ChatAt("check_health")
    /\ chat' = [chat EXCEPT
          !.health = IF is_ollama_available THEN "available" ELSE "unavailable",
          !.pc = IF is_ollama_available THEN "status_msg" ELSE "fallback"]
    /\ ChatFrame

(* status_msg = await message.answer(progress bar), then                   *)
(* asyncio.create_task(animate_thinking_indicator()); a failure of the     *)
(* send is caught by the handlers that close the LLM block.                *)
ChatStartAnimation(sent) ==
    /\ ChatAt("status_msg")
    /\ chat' = IF sent
               THEN [chat EXCEPT !.status_msg = TRUE,
                                 !.animation = "running",
                                 !.pc = "chat_stream"]
               ELSE [chat EXCEPT !.pc = "fallback"]
    /\ ChatFrame

(* `while not animation_stopped` of the animation task finds the flag set. *)
AnimationExit ==
    /\ chat.pc # None
    /\ chat.animation = "running"
    /\ chat.animation_stopped
    /\ chat' = [chat EXCEPT !.animation = "finished"]
    /\ ChatFrame

Cancelled(animation) == IF animation = "running" THEN "cancelled" ELSE animation

(* ai_response = await ollama_client.chat_stream(chat_messages, on_token)  *)
(* and what the handler does with its result.  on_token sets               *)
(* animation_stopped at the first token.  Non-empty text: the animation    *)
(* task is cancelled and awaited and used_streaming is set.  An exception: *)
(* the task is cancelled and awaited and the non-streaming call is tried.  *)
(* Empty text without an exception: neither branch is taken.               *)
ChatStream(outcome) ==
    /\ ChatAt("chat_stream")
    /\ chat' =
          CASE outcome = "text" ->
                  [chat EXCEPT !.stream = outcome,
                               !.ai_response = "llm_text",
                               !.llm_text = TRUE,
                               !.animation_stopped = TRUE,
                               !.animation = Cancelled(@),
                               !.used_streaming = TRUE,
                               !.pc = "fallback"]
            [] outcome = "raised" ->
                  [chat EXCEPT !.stream = outcome,
                               !.animation_stopped = TRUE,
                               !.animation = Cancelled(@),
                               !.pc = "loading_start"]
            [] outcome = "empty_after_tokens" ->
                  [chat EXCEPT !.stream = outcome,
                               !.ai_response = "",
                               !.animation_stopped = TRUE,
                               !.pc = "fallback"]
            [] outcome = "empty_no_token" ->
                  [chat EXCEPT !.stream = outcome,
                               !.ai_response = "",
                               !.pc = "fallback"]
    /\ ChatFrame

(* loading = await LoadingIndicator.start(message), in the handler of the  *)
(* streaming error; a failure of the send leaves the LLM block.            *)
ChatStartLoading(sent) ==
    /\ ChatAt("loading_start")
    /\ chat' = [chat EXCEPT !.pc = IF sent THEN "chat" ELSE "fallback"]
    /\ ChatFrame

(* ai_response = await ollama_client.chat(chat_messages); the finally      *)
(* clause stops the indicator and deletes status_msg.                      *)
ChatNonStreaming(outcome) ==
    /\ ChatAt("chat")
    /\ chat' = [chat EXCEPT !.chat_calls = @ + 1,
                            !.ai_response = IF outcome = "text" THEN "llm_text"
                                            ELSE outcome,
                            !.llm_text = (outcome = "text"),
                            !.status_msg = FALSE,
                            !.pc = "fallback"]
    /\ ChatFrame

(* if not ai_response: the fallback search; if still not ai_response:      *)
(* phrases.error.                                                          *)
ChatFallback ==
    /\ ChatAt("fallback")
    /\ LET r == IF ~Truthy(chat.ai_response)
                THEN fallback_reply(chat.found_faq, chat.matched, chat.last_topic)
                ELSE chat.ai_response
       IN  chat' = [chat EXCEPT
              !.ai_response = IF ~Truthy(r) THEN "error_phrase" ELSE r,
              !.pc = "save_reply"]
    /\ ChatFrame

(* context.save_message(user_id, "assistant", ai_response)                 *)
ChatSaveReply(stored) ==
    /\ ChatAt("save_reply")
    /\ chat' = IF stored
               THEN [chat EXCEPT
                        !.saved = Append(@, <<"assistant", chat.ai_response>>),
                        !.pc = "answer"]
               ELSE [chat EXCEPT !.pc = "raised", !.error = "save_message"]
    /\ ChatFrame

(* status_msg.edit_text(formatted_response) after streaming, otherwise     *)
(* status_msg.delete() and message.answer(formatted_response).             *)
ChatAnswer ==
    /\ ChatAt("answer")
    /\ chat' = [chat EXCEPT !.sent = chat.ai_response,
                            !.status_msg = chat.used_streaming /\ chat.status_msg,
                            !.pc = "done"]
    /\ ChatFrame

NextChat ==
    \/ \E stored \in BOOLEAN : ChatSaveUserMessage(stored)
    \/ ChatQuickFaq
    \/ \E is_ollama_available \in BOOLEAN : ChatCheckHealth(is_ollama_available)
    \/ \E sent \in BOOLEAN : ChatStartAnimation(sent)
    \/ AnimationExit
    \/ \E outcome \in StreamOutcomes : ChatStream(outcome)
    \/ \E sent \in BOOLEAN : ChatStartLoading(sent)
    \/ \E outcome \in ChatOutcomes : ChatNonStreaming(outcome)
    \/ ChatFallback
    \/ \E stored \in BOOLEAN : ChatSaveReply(stored)
    \/ ChatAnswer

SpecChat == InitChat /\ [][NextChat]_vars

-----------------------------------------------------------------------------
(* handoff/ticket_manager.py: one call of TicketManager.create_ticket.     *)
(* The body reads datetime.now() twice: in _calculate_sla_deadline for the *)
(* deadline and in the Ticket constructor for created_at.  The wall clock  *)
(* runs on between the two readings.  A timestamp is [us, hours]: a clock  *)
(* reading in microseconds plus the hours a timedelta added to it.         *)

MaxTicks == 3
MaxTickets == 2

TicketType == {"sales_lead", "refund", "complaint", "legal", "privacy"}

NoTime == [us |-> -1, hours |-> 0]

now == [us |-> clock, hours |-> 0]

timedelta_hours(timestamp, hours) == [timestamp EXCEPT !.hours = @ + hours]

calculate_sla_deadline(priority) == timedelta_hours(now, sla_hours(priority))

InitTicket ==
    /\ text = NoText
    /\ intent = NoIntent
    /\ confidence = NoConfidence
    /\ escalation = NoEscalation
    /\ funnel_contexts = NoFunnel
    /\ clock = 0
    /\ route_call = <<>>
    /\ turns = <<>>
    /\ messages = <<>>
    /\ tickets = <<>>
    /\ outbox = {}
    /\ call = NoCall
    /\ chat = NoChat
    /\ IdleCalls

(* Time passes.                                                            *)
Tick ==
    /\ clock < MaxTicks
    /\ clock' = clock + 1
    /\ UNCHANGED <<nluVars, funnel_contexts, route_call, turnVars, llmVars,
                   callVars>>

TicketFrame ==
    UNCHANGED <<nluVars, funnelVars, turns, messages, outbox, llmVars,
                extraction, search, regression, stream>>

(* create_ticket(ticket_type, user_id, ..., requested_action) is called;   *)
(* priority = self._get_priority_by_type(ticket_type).                     *)
CreateTicketCall(ticket_type, user_id, requested_action) ==
    /\ creating = NoCreate
    /\ Len(tickets) < MaxTickets
    /\ creating' = [pc |-> "sla_deadline", ticket_type |-> ticket_type,
                    user_id |-> user_id, requested_action |-> requested_action,
                    priority |-> get_priority_by_type(ticket_type),
                    sla_deadline |-> NoTime, created_at |-> NoTime]
    /\ tickets' = tickets
    /\ TicketFrame

(* sla_deadline = self._calculate_sla_deadline(priority)                   *)
CalculateSlaDeadline ==
    /\ creating.pc = "sla_deadline"
    /\ creating' = [creating EXCEPT
          !.sla_deadline = calculate_sla_deadline(creating.priority),
          !.pc = "ticket"]
    /\ tickets' = tickets
    /\ TicketFrame

(* The context is built and Ticket(..., created_at=datetime.now(), ...)    *)
(* is constructed.                                                         *)
BuildTicket ==
    /\ creating.pc = "ticket"
    /\ creating' = [creating EXCEPT !.created_at = now, !.pc = "save_to_db"]
    /\ tickets' = tickets
    /\ TicketFrame

(* ticket_id = await self._save_to_db(ticket), the export, the return.     *)
SaveToDb ==
    /\ creating.pc = "save_to_db"
    /\ tickets' = Append(tickets,
          create_ticket(Len(tickets) + 1, 0, creating.ticket_type,
                        creating.user_id, creating.requested_action)
          @@ [sla_deadline_at |-> creating.sla_deadline,
              created_at |-> creating.created_at])
    /\ creating' = NoCreate
    /\ TicketFrame

NextTicket ==
    \/ Tick
    \/ \E ticket_type \in TicketType, requested_action \in {"", "refund_request"} :
          CreateTicketCall(ticket_type, 1, requested_action)
    \/ CalculateSlaDeadline
    \/ BuildTicket
    \/ SaveToDb

SpecTicket == InitTicket /\ [][NextTicket]_vars

-----------------------------------------------------------------------------
(* nlu/slot_extractor.py on texts.  A text is [tokens, contains, order_id, *)
(* phone, email]: its words and numbers in order, and what the goal        *)
(* keywords and the order and contact patterns find in it.  The budget and *)
(* the deadline are computed from the tokens as _extract_budget and        *)
(* _extract_deadline compute them from text_lower.                         *)

MaxTokens == 3
MaxCalls == 3

Numbers == {"50", "50000"}

(* rub, tys, k, byudzhet, do, okolo, srok, zavtra stand for the words      *)
(* "rub", "tys", "k", "byudzhet", "do", "okolo", "srok", "zavtra" of the   *)
(* Russian text.                                                           *)
Words == {"rub", "tys", "k", "byudzhet", "do", "okolo", "srok", "zavtra"}

(* The words that begin with one of rub|rublej|tysyach|tys|k.              *)
StartsWithUnit(token) == token \in {"rub", "tys", "k"}

(* The words in which "tysyach", "tys" or the letter "k" occurs.           *)
HasThousandMark(token) == token \in {"tys", "k", "okolo", "srok"}

Least(S) == CHOOSE x \in S : \A y \in S : x <= y

NumberBeforeUnit(tokens) ==
    {k \in 1..Len(tokens) :
        /\ tokens[k] \in Numbers
        /\ k < Len(tokens)
        /\ StartsWithUnit(tokens[k + 1])}

NumberAfter(tokens, word) ==
    {k \in 2..Len(tokens) : tokens[k] \in Numbers /\ tokens[k - 1] = word}

(* for pattern in BUDGET_PATTERNS: match = re.search(pattern, text_lower): *)
(* the position of the number the first matching pattern captures, 0       *)
(* where no pattern matches.                                               *)
budget_match(tokens) ==
    IF NumberBeforeUnit(tokens) # {} THEN Least(NumberBeforeUnit(tokens))
    ELSE IF NumberAfter(tokens, "byudzhet") # {}
    THEN Least(NumberAfter(tokens, "byudzhet"))
    ELSE IF NumberAfter(tokens, "do") # {} THEN Least(NumberAfter(tokens, "do"))
    ELSE IF NumberAfter(tokens, "okolo") # {}
    THEN Least(NumberAfter(tokens, "okolo"))
    ELSE 0

extract_budget(tokens) ==
    LET k == budget_match(tokens)
    IN  IF k = 0 THEN None
        ELSE IF \E j \in 1..Len(tokens) : HasThousandMark(tokens[j])
        THEN tokens[k] \o "000 rub"
        ELSE tokens[k] \o " rub"

(* The literal keywords first, then DEADLINE_PATTERNS; of the patterns     *)
(* only "do N" can match a text of these words.                            *)
extract_deadline(tokens) ==
    IF \E j \in 1..Len(tokens) : tokens[j] = "zavtra" THEN "zavtra"
    ELSE IF NumberAfter(tokens, "do") # {}
    THEN "do " \o tokens[Least(NumberAfter(tokens, "do"))]
    ELSE None

Text(tokens, contains, order_id, phone, email) ==
    [tokens |-> tokens, contains |-> contains, order_id |-> order_id,
     phone |-> phone, email |-> email]

(* What the patterns of the extractor find in a text.                      *)
found_in(t) ==
    [contains |-> t.contains, words |-> Len(t.tokens), order_id |-> t.order_id,
     budget_band |-> extract_budget(t.tokens),
     deadline |-> extract_deadline(t.tokens),
     phone |-> t.phone, email |-> t.email]

(* An extractor that carries the slots of its last call over to the next.  *)
extract_call_remembering(instance, t, conversation_history) ==
    LET found == extract(found_in(t), <<>>)
        result == IF instance = <<>> THEN found
                  ELSE merge_extracted(instance[1], found)
    IN  [result |-> result, instance |-> <<result>>]

(* SlotExtractor.extract(text, conversation_history): the collection       *)
(* returned and the attributes of the instance after the call.  __init__   *)
(* sets no attribute and no method assigns one; conversation_history is    *)
(* handed to _extract_goal, which does not look at it.                     *)
extract_call(instance, t, conversation_history) ==
    [result |-> extract(found_in(t), <<>>), instance |-> instance]

RECURSIVE TokenSeqs(_)
TokenSeqs(n) ==
    IF n = 0 THEN {<<>>}
    ELSE LET shorter == TokenSeqs(n - 1)
         IN  shorter \cup {Append(q, tok) : q \in shorter, tok \in Numbers \cup Words}

Histories == {<<>>, <<[role |-> "user", content |-> "byudzhet 50000 rub"]>>}

InitExtract ==
    /\ text = NoText
    /\ intent = NoIntent
    /\ confidence = NoConfidence
    /\ escalation = NoEscalation
    /\ IdleRest

Extract(t, conversation_history) ==
    /\ LET out == extract_call(extraction.instance, t, conversation_history)
       IN  extraction' =
              [instance |-> out.instance,
               calls |-> Append(extraction.calls,
                                [text |-> t,
                                 conversation_history |-> conversation_history,
                                 result |-> out.result])]
    /\ UNCHANGED <<nluVars, funnelVars, turnVars, llmVars, creating, search,
                   regression, stream>>

(* One call on every text of up to MaxTokens words and numbers.            *)
NextBudget ==
    \E tokens \in TokenSeqs(MaxTokens) :
        /\ extraction.calls = <<>>
        /\ Extract(Text(tokens, {}, None, None, None), <<>>)

SpecBudget == InitExtract /\ [][NextBudget]_vars

(* Up to MaxCalls calls on one extractor, texts and histories repeating.   *)
ExtractTexts ==
    {Text(<<"byudzhet", "50000", "rub">>, {"sdelat sajt"}, None, None, None),
     Text(<<"50", "tys">>, {}, "12345", None, None),
     Text(<<"zavtra">>, {}, None, None, "user@example.com"),
     Text(<<>>, {}, None, "+79991234567", None)}

NextExtract ==
    \E t \in ExtractTexts, conversation_history \in Histories :
        /\ Len(extraction.calls) < MaxCalls
        /\ Extract(t, conversation_history)

SpecExtract == InitExtract /\ [][NextExtract]_vars

-----------------------------------------------------------------------------
(* knowledge/search.py.  A text is the sequence of its whitespace-         *)
(* separated tokens as typed; normalize_text lower-cases it and removes    *)
(* the punctuation.  Scores are the code's floats in fixed point, c        *)
(* standing for c / Scale: 0.2, 0.4 and 0.6 times matched / len(words) is  *)
(* a multiple of 1 / Scale for every query of up to eight words.           *)

MaxQueryWords == 2
MaxItems == 2

(* gde, vy, kak, uslugi, uslug, cena stand for the words "gde", "vy",      *)
(* "kak", "uslugi", "uslug", "cena" of the Russian text.                   *)
SearchWords == {"gde", "vy", "kak", "uslugi", "uslug", "cena"}

(* Tokens as typed and their lower-cased, punctuation-free form.           *)
Typed ==
    {<<"Gde", "gde">>, <<"vy?", "vy">>, <<"Uslugi", "uslugi">>,
     <<"cena?", "cena">>}

SearchTokens == SearchWords \cup {pr[1] : pr \in Typed}

normalize_token(token) ==
    IF \E pr \in Typed : pr[1] = token
    THEN (CHOOSE pr \in Typed : pr[1] = token)[2]
    ELSE token

normalize_text(tokens) == [j \in 1..Len(tokens) |-> normalize_token(tokens[j])]

stop_words == {"kak", "gde", "vy"}

(* len(word) > 2 *)
LongerThanTwo(word) == word # "vy"

(* a is a prefix of b, a is a suffix of b, a occurs in b, for normalized   *)
(* words.                                                                  *)
PrefixOf(a, b) == a = b \/ (a = "uslug" /\ b = "uslugi")

SuffixOf(a, b) == a = b

PartOf(a, b) == PrefixOf(a, b) \/ SuffixOf(a, b)

(* `phrase in text` for normalized texts: the phrase occurs in the text    *)
(* joined by single blanks.                                                *)
OccursIn(phrase, normalized) ==
    \E i \in 0..(Len(normalized) - Len(phrase)) :
        \A j \in 1..Len(phrase) :
            LET w == normalized[i + j]
            IN  IF Len(phrase) = 1 THEN PartOf(phrase[j], w)
                ELSE IF j = 1 THEN SuffixOf(phrase[j], w)
                ELSE IF j = Len(phrase) THEN PrefixOf(phrase[j], w)
                ELSE phrase[j] = w

Range(q) == {q[j] : j \in 1..Len(q)}

(* sum(1 for word in query_words if word in words) *)
MatchedWords(query_words, words) ==
    Cardinality({j \in 1..Len(query_words) : query_words[j] \in words})

RECURSIVE KeywordScore(_, _, _, _)
KeywordScore(keywords, i, query_normalized, query_words) ==
    IF i > Len(keywords) THEN 0
    ELSE LET keyword == normalize_text(keywords[i])
             matched_keyword_words == MatchedWords(query_words, Range(keyword))
             here == IF OccursIn(keyword, query_normalized)
                     THEN (8 * Scale) \div 10
                     ELSE IF matched_keyword_words > 0
                     THEN (((4 * Scale) \div 10) * matched_keyword_words)
                             \div Len(query_words)
                     ELSE 0
         IN  here + KeywordScore(keywords, i + 1, query_normalized, query_words)

calculate_relevance(query, faq_item) ==
    LET query_normalized == normalize_text(query)
        query_words ==
            SelectSeq(query_normalized,
                      LAMBDA word : LongerThanTwo(word) /\ word \notin stop_words)
        question_normalized == normalize_text(faq_item.question)
        matched_words == MatchedWords(query_words, Range(question_normalized))
        of_question ==
            IF \A j \in 1..Len(query_words) :
                   OccursIn(<<query_words[j]>>, question_normalized)
            THEN Scale
            ELSE IF matched_words > 0
            THEN (((6 * Scale) \div 10) * matched_words) \div Len(query_words)
            ELSE 0
        matched_in_answer ==
            MatchedWords(query_words, Range(normalize_text(faq_item.answer)))
        of_answer ==
            IF matched_in_answer > 0
            THEN (((2 * Scale) \div 10) * matched_in_answer) \div Len(query_words)
            ELSE 0
    IN  IF query_words = <<>> THEN 0
        ELSE Min(of_question
                    + KeywordScore(faq_item.keywords, 1, query_normalized,
                                   query_words)
                    + of_answer,
                 Scale)

(* The result is <<item, score>>, or <<>> for None.  scored_items.sort(    *)
(* key=score, reverse=True) is stable, so scored_items[0] is the earliest  *)
(* of the items with the greatest score.                                   *)
quick_faq_check(query, knowledge_base, min_score) ==
    LET scored_items ==
            SelectSeq([j \in 1..Len(knowledge_base) |->
                          <<knowledge_base[j],
                            calculate_relevance(query, knowledge_base[j])>>],
                      LAMBDA scored : scored[2] >= min_score)
        first == CHOOSE i \in 1..Len(scored_items) :
                    \A j \in 1..Len(scored_items) :
                        \/ scored_items[i][2] > scored_items[j][2]
                        \/ scored_items[i][2] = scored_items[j][2] /\ i <= j
    IN  IF knowledge_base = <<>> THEN <<>>
        ELSE IF scored_items = <<>> THEN <<>>
        ELSE scored_items[first]

FAQItem(id, question, answer, keywords) ==
    [id |-> id, question |-> question, answer |-> answer, keywords |-> keywords]

(* "Gde vy?", "kak uslugi", "cena?", "Gde cena" with answers and keywords. *)
FaqItems ==
    {FAQItem(1, <<"Gde", "vy?">>, <<"uslugi">>, <<>>),
     FAQItem(2, <<"kak", "uslugi">>, <<"cena">>, << <<"Uslugi">> >>),
     FAQItem(3, <<"cena?">>, <<"cena", "uslugi">>,
             << <<"cena">>, <<"uslugi", "cena">> >>),
     FAQItem(4, <<"Gde", "cena">>, <<>>, << <<"uslug">> >>)}

RECURSIVE KnowledgeBases(_)
KnowledgeBases(n) ==
    IF n = 0 THEN {<<>>}
    ELSE LET shorter == KnowledgeBases(n - 1)
         IN  shorter \cup UNION {{Append(kb, item) : item \in FaqItems \ Range(kb)}
                                    : kb \in shorter}

RECURSIVE Queries(_)
Queries(n) ==
    IF n = 0 THEN {<<>>}
    ELSE LET shorter == Queries(n - 1)
         IN  shorter \cup {Append(q, token) : q \in shorter, token \in SearchTokens}

(* chat.py asks with min_score=0.75, chat_new.py with min_score=0.7.       *)
MinScores == {(75 * Scale) \div 100, (7 * Scale) \div 10}

QuickFaqCheck(query, knowledge_base, min_score) ==
    /\ search = <<>>
    /\ search' = <<[query |-> query, knowledge_base |-> knowledge_base,
                    min_score |-> min_score,
                    result |-> quick_faq_check(query, knowledge_base, min_score)]>>
    /\ UNCHANGED <<nluVars, funnelVars, turnVars, llmVars, creating, extraction,
                   regression, stream>>

(* One call on every query of up to MaxQueryWords tokens and every         *)
(* knowledge base of up to MaxItems items.                                 *)
NextSearch ==
    /\ search = <<>>
    /\ \E query \in Queries(MaxQueryWords),
          knowledge_base \in KnowledgeBases(MaxItems), min_score \in MinScores :
           QuickFaqCheck(query, knowledge_base, min_score)

SpecSearch == InitExtract /\ [][NextSearch]_vars

-----------------------------------------------------------------------------
(* qa/test_cases.py: the regression set.  The input of a case is the text  *)
(* [contains, words] of its sentence: the keyword phrases that occur in    *)
(* the lower-cased sentence and its number of tokens.                      *)

TestCase(id, contains, words, expected_intent) ==
    [id |-> id, input |-> [contains |-> contains, words |-> words],
     expected_intent |-> expected_intent]

(* TC001 "Skolko stoit?", TC002 "Hochu vernut zakaz 12345", TC003 "Udalite *)
(* moi dannye", TC004 "Vy moshenniki, vernite dengi", TC005 "Dajte telefon *)
(* klienta Ivanova po zakazu 999", TC006 "Kakie u vas uslugi?", TC007      *)
(* "Hochu zakazat", TC008 "Gde moj zakaz 555?", TC009 "Privet", TC010      *)
(* "Sravnite vashi uslugi s konkurentami".                                 *)
TEST_CASES ==
  <<
    TestCase("TC001", {"skolko stoit"}, 2, "pricing_request"),
    TestCase("TC002", {"vernut", "zakaz"}, 4, "refund_request"),
    TestCase("TC003", {"udalite moi dannye", "udalite", "da"}, 3, "privacy_request"),
    TestCase("TC004", {"moshenni", "vernite dengi"}, 4, "aggression"),
    TestCase("TC005", {"telefon klienta", "da", "zakaz"}, 7, "fraud_signals"),
    TestCase("TC006", {"uslugi", "kak"}, 4, "services_browse"),
    TestCase("TC007", {"hochu zakazat", "zakazat", "zakaz"}, 2, "buy"),
    TestCase("TC008", {"zakaz"}, 4, "status"),
    TestCase("TC009", {"privet"}, 1, "greet"),
    TestCase("TC010", {"uslugi"}, 5, "comparison")
  >>

(* classifier.classify(case.input) for a case of the set not yet run; the  *)
(* cases are independent, so they run in any order.                        *)
RunCase(c) ==
    /\ c \notin DOMAIN regression
    /\ regression' = regression @@ (c :> classify(TEST_CASES[c].input))
    /\ UNCHANGED <<nluVars, funnelVars, turnVars, llmVars, creating, extraction,
                   search, stream>>

NextRegression == \E c \in 1..Len(TEST_CASES) : RunCase(c)

SpecRegression == InitExtract /\ [][NextRegression]_vars

-----------------------------------------------------------------------------
(* Claims about should_escalate (SpecEsc).                                 *)

EscalationArg == IF confidence = NoConfidence THEN DefaultConfidenceArg ELSE confidence

(* C2: for every intent of group security, privacy or complaints and every *)
(* confidence (0.01 and the default 0.0 included) should_escalate returns  *)
(* true with the reason naming the group.                                  *)
C2_SuperPriorityAlwaysEscalates ==
    (escalation # NoEscalation
     /\ intent.group \in {"security", "privacy", "complaints"})
    => /\ escalation.escalate
       /\ escalation.reason = <<"critical_group", intent.group>>

C2_Witness ==
    /\ escalation # NoEscalation
    /\ intent.group = "privacy"
    /\ confidence = 84
    /\ escalation.escalate

(* C3: should_escalate returns true exactly when the group is security,    *)
(* privacy or complaints, or confidence < 0.3 and the group is             *)
(* transactions or support, or the name is human_handoff or legal; in      *)
(* every other case it returns (false, empty reason).                      *)
C3_EscalatesExactlyWhen ==
    escalation # NoEscalation =>
        LET due == \/ intent.group \in {"security", "privacy", "complaints"}
                   \/ (EscalationArg < 2520
                       /\ intent.group \in {"transactions", "support"})
                   \/ intent.name \in {"human_handoff", "legal"}
        IN  /\ escalation.escalate <=> due
            /\ ~due => escalation = [escalate |-> FALSE, reason |-> <<>>]

C3_Witness ==
    /\ escalation # NoEscalation
    /\ intent.group = "transactions"
    /\ intent.name = "buy"
    /\ confidence = 2520
    /\ escalation = [escalate |-> FALSE, reason |-> <<>>]

-----------------------------------------------------------------------------
(* Claims about classify (SpecClassify).                                   *)

Matched(e) == \E j \in 1..Len(e.keywords) : e.keywords[j] \in text.contains

QualifyingEntries ==
    {i \in 1..Len(all_intents) :
        LET e == all_intents[i]
            conf == calculate_confidence(text, e.keywords)
        IN  /\ Matched(e)
            /\ (e.group \in {"security", "privacy", "complaints"}
                \/ conf >= 2520)}

(* C4: a text that contains a keyword of any security, privacy or          *)
(* complaints intent is classified into one of those three groups,         *)
(* whatever the confidence and whatever lower-priority keywords it also    *)
(* matches; never a lower-priority intent, never the default.              *)
C4_SuperPriorityNeverMissed ==
    (intent # NoIntent
     /\ \E i \in 1..Len(all_intents) :
            /\ all_intents[i].group \in {"security", "privacy", "complaints"}
            /\ Matched(all_intents[i]))
    => intent.group \in {"security", "privacy", "complaints"}

C4_Witness ==
    /\ intent # NoIntent
    /\ intent.group \in {"security", "privacy", "complaints"}
    /\ intent.confidence < 2520
    /\ \E i \in 1..Len(all_intents) :
          /\ all_intents[i].group \notin {"security", "privacy", "complaints"}
          /\ calculate_confidence(text, all_intents[i].keywords) > intent.confidence

(* C5: an intent returned outside the three super-priority groups has      *)
(* confidence >= 0.3, and the default general/navigation with confidence   *)
(* 0.5 is returned exactly when no registry entry qualifies.               *)
C5_FloorAndDefault ==
    intent # NoIntent =>
        /\ intent.group \notin {"security", "privacy", "complaints"}
              => intent.confidence >= 2520
        /\ (intent = [name |-> "general", priority |-> 7,
                      confidence |-> 4200, group |-> "navigation"])
              <=> QualifyingEntries = {}

C5_Witness ==
    /\ intent # NoIntent
    /\ intent.name = "general"
    /\ intent.confidence = 4200
    /\ \E i \in 1..Len(all_intents) : Matched(all_intents[i])

(* C6: classify returns the first qualifying entry of the registry, whose  *)
(* order is priority ascending and declaration order within a group; a     *)
(* later entry is never returned when an earlier one qualifies, even with  *)
(* strictly higher confidence.                                             *)
C6_FirstQualifyingWins ==
    /\ all_intents = Appended
    /\ \A i \in 1..(Len(all_intents) - 1) :
          all_intents[i].priority <= all_intents[i + 1].priority
    /\ (intent # NoIntent /\ QualifyingEntries # {}) =>
          LET first == CHOOSE i \in QualifyingEntries :
                          \A k \in QualifyingEntries : i <= k
          IN  /\ intent.name = all_intents[first].name
              /\ intent.group = all_intents[first].group
              /\ intent.priority = all_intents[first].priority
              /\ intent.confidence =
                    calculate_confidence(text, all_intents[first].keywords)

C6_Witness ==
    /\ intent # NoIntent
    /\ \E i, j \in QualifyingEntries :
          /\ i < j
          /\ intent.name = all_intents[i].name
          /\ all_intents[i].priority = all_intents[j].priority
          /\ calculate_confidence(text, all_intents[j].keywords)
                > calculate_confidence(text, all_intents[i].keywords)

-----------------------------------------------------------------------------
(* Claims about FunnelRouter.route (SpecRoute).                            *)

(* C7: the stage whose process is invoked by route is complaints for group *)
(* complaints, support for groups privacy and support, closing (goal set)  *)
(* or qualification (goal unset) for transactions, offer (goal set) or     *)
(* qualification (goal unset) for presales, and the context's current      *)
(* stage for every other group.                                            *)
C7_StageChosenByIntentGroup ==
    route_call # <<>> =>
        LET c == route_call[1]
            goal_set == c.goal_before # None
            expected ==
                CASE c.group = "complaints" -> "complaints"
                  [] c.group \in {"privacy", "support"} -> "support"
                  [] c.group = "transactions" ->
                        IF goal_set THEN "closing" ELSE "qualification"
                  [] c.group = "presales" ->
                        IF goal_set THEN "offer" ELSE "qualification"
                  [] OTHER -> c.stage_before
        IN  /\ c.handler = expected
            /\ c.result.stage = expected

C7_Witness ==
    /\ route_call # <<>>
    /\ route_call[1].group = "transactions"
    /\ route_call[1].goal_before # None
    /\ route_call[1].stage_before = "support"
    /\ route_call[1].handler = "closing"

(* C8: after any sequence of route calls the context's current_stage is    *)
(* one of the seven stages, and a stage result whose next_stage is none    *)
(* leaves it at the stage chosen for the call instead of clearing it.      *)
C8_CurrentStageAlwaysAStage ==
    \A u \in DOMAIN funnel_contexts :
        /\ funnel_contexts[u].current_stage \in
              {"acquisition", "qualification", "offer", "closing", "support",
               "complaints", "retention"}
        /\ (route_call # <<>> /\ route_call[1].user_id = u
            /\ route_call[1].result.next_stage = None)
              => funnel_contexts[u].current_stage = route_call[1].current_stage

C8_Witness ==
    /\ route_call # <<>>
    /\ route_call[1].result.next_stage = None
    /\ route_call[1].stage_before = "offer"
    /\ funnel_contexts[1].current_stage = "closing"
    /\ funnel_contexts[1].last_stage_change > 1

-----------------------------------------------------------------------------
(* Claims about chat_new.handle_text_message (Spec).                       *)

TicketsOf(t) == {k \in DOMAIN tickets : tickets[k].turn = t}

SentBy(t) == {m \in outbox : m.turn = t}

(* C1: on every turn for which should_escalate(intent, intent.confidence)  *)
(* is true exactly one ticket is created and one escalation message is     *)
(* sent, and the turn ends without the FAQ fast-path check, the slot       *)
(* merge, creation or mutation of the FunnelContext, route, a stage's      *)
(* process or any LLM call.                                                *)
C1_EscalatedTurnOnlyEscalates ==
    \A t \in DOMAIN turns :
        (/\ turns[t].intent # NoIntent
         /\ should_escalate(turns[t].intent, turns[t].intent.confidence).escalate)
        => /\ turns[t].did \cap
                 {"quick_faq_check", "slot_merge", "create_context",
                  "mutate_context", "route", "process", "check_health",
                  "loading", "generate"} = {}
           /\ turns[t].stage_result = NoResult
           /\ turns[t].pc \in {"should_escalate", "create_ticket", "answer", "done"}
           /\ Cardinality(TicketsOf(t)) <= 1
           /\ \A m \in SentBy(t) :
                 m.kind = "escalation" /\ m.user_id = turns[t].user_id
           /\ turns[t].pc = "answer"
                 => Cardinality(TicketsOf(t)) = 1 /\ SentBy(t) = {}
           /\ turns[t].pc = "done"
                 => Cardinality(TicketsOf(t)) = 1 /\ Cardinality(SentBy(t)) = 1

C1_Witness ==
    \E t \in DOMAIN turns :
        /\ turns[t].pc = "done"
        /\ turns[t].intent.group = "complaints"
        /\ turns[t].faq
        /\ Cardinality(TicketsOf(t)) = 1
        /\ \E m \in SentBy(t) : m.kind = "escalation"

(* C9: for one user id the handling of a later message does not begin (no  *)
(* read or write of the user's history or FunnelContext) until the         *)
(* handling of the user's previous message has run to completion.          *)
C9_TurnsOfOneUserNeverInterleave ==
    \A s, t \in DOMAIN turns :
        (/\ s < t
         /\ turns[s].user_id = turns[t].user_id
         /\ turns[t].pc # "save_user_message")
        => turns[s].pc \in Ended

(* C10: a failure in the FAQ fast path, slot extraction, routing, the LLM  *)
(* health check or generation never aborts the turn, which still ends with *)
(* a reply to the user; only failures of save_message propagate.           *)
C10_OnlySaveMessageFailuresPropagate ==
    \A t \in DOMAIN turns :
        /\ turns[t].pc = "raised" => turns[t].error = "save_message"
        /\ (turns[t].pc \in Ended /\ turns[t].error # "save_message")
              => \E m \in SentBy(t) : m.kind # "loading"

StoredBy(t, role) ==
    {k \in DOMAIN messages[turns[t].user_id] :
        messages[turns[t].user_id][k] = [role |-> role, turn |-> t]}

(* C12: every turn that completes without a persistence error has          *)
(* persisted the inbound user message and exactly one outbound assistant   *)
(* message, whichever way the turn ends: escalation, FAQ fast path, stage  *)
(* handoff, stage response or generated response.                          *)
C12_CompletedTurnPersistsBothMessages ==
    \A t \in DOMAIN turns :
        turns[t].pc = "done"
        => /\ Cardinality(StoredBy(t, "user")) = 1
           /\ Cardinality(StoredBy(t, "assistant")) = 1

FaqHit(t) ==
    /\ turns[t].faq
    /\ turns[t].intent # NoIntent
    /\ ~Escalation(t).escalate

(* C13: when the instant FAQ check returns a hit, the reply is that FAQ    *)
(* item's answer verbatim and the turn makes no LLM call (neither health   *)
(* check nor generation) and neither creates nor changes the user's        *)
(* FunnelContext: stage, slots, visit counters and transition timestamp    *)
(* are as before the turn.                                                 *)
C13_FaqHitAnswersVerbatimAndStops ==
    [][\A t \in DOMAIN turns :
          (FaqHit(t) /\ turns'[t] # turns[t])
          => /\ funnel_contexts' = funnel_contexts
             /\ clock' = clock
             /\ turns'[t].reply = <<"faq_answer">>
             /\ turns'[t].stage_result = NoResult
             /\ turns'[t].did \cap
                   {"slot_merge", "create_context", "mutate_context", "route",
                    "process", "check_health", "loading", "generate"} = {}
             /\ turns'[t].pc = "done"
                   => \E m \in outbox' :
                         /\ m.turn = t
                         /\ m.kind = "reply"
                         /\ m.text = <<"faq_answer">>]_vars

C13_Witness ==
    \E t \in DOMAIN turns :
        /\ FaqHit(t)
        /\ turns[t].pc = "done"
        /\ turns[t].user_id \in DOMAIN funnel_contexts
        /\ \E m \in SentBy(t) : m.text = <<"faq_answer">>

(* C18: a contact value (phone or email) is written into a user's          *)
(* FunnelContext only on a turn whose funnel stage permits contact         *)
(* collection (closing or complaints); on turns at acquisition,            *)
(* qualification, offer, support or retention no contact is stored, even   *)
(* if the message contains one.                                            *)
C18_ContactStoredOnlyWherePermitted ==
    \A u \in DOMAIN funnel_contexts :
        Truthy(get_value(funnel_contexts[u].slots, "contact"))
        => \E t \in DOMAIN turns :
              /\ turns[t].user_id = u
              /\ Truthy(extract_contact(turns[t].message))
              /\ turns[t].stage_result # NoResult
              /\ is_pii_allowed(turns[t].stage_result.stage, "contact")

(* C20: when the qualification stage processes a turn for a user whose     *)
(* slots hold budget_band and deadline but no goal (and the message yields *)
(* no goal), the stage is not complete and the response it produces        *)
(* through ask_next_missing on that user's slot collection is the goal     *)
(* question.                                                               *)
C20_QualificationAsksForGoal ==
    \A t \in DOMAIN turns :
        (/\ turns[t].stage_result # NoResult
         /\ turns[t].stage_result.stage = QUALIFICATION
         /\ extract_goal(turns[t].message) = None
         /\ turns[t].user_id \in DOMAIN funnel_contexts
         /\ LET slots == funnel_contexts[turns[t].user_id].slots
            IN  /\ get_value(slots, "goal") = None
                /\ get_value(slots, "budget_band") # None
                /\ get_value(slots, "deadline") # None)
        => /\ ~turns[t].stage_result.success
           /\ turns[t].stage_result.response_text = "ask_goal"

SlotsOf(contexts, u) ==
    IF u \in DOMAIN contexts THEN contexts[u].slots.slots ELSE EmptySlots

(* C19: a slot value held in a user's context changes only through an      *)
(* explicit set_value call, with no confidence-based arbitration: after    *)
(* each turn that reaches slot merging, every slot for which the current   *)
(* message's extraction produced a value holds that new value (even one of *)
(* lower confidence than the stored one), every other stored slot keeps    *)
(* its previous value, and no slot is ever removed.                        *)
C19_MergeIsLastWriteWins ==
    [][(funnel_contexts' # funnel_contexts \/ turns' # turns)
       => \A u \in Users :
             LET stored == SlotsOf(funnel_contexts, u)
                 after == SlotsOf(funnel_contexts', u)
                 merging == {t \in DOMAIN turns :
                                /\ turns[t].user_id = u
                                /\ "slot_merge" \notin turns[t].did
                                /\ "slot_merge" \in turns'[t].did}
             IN  /\ merging = {} => after = stored
                 /\ \A n \in SlotNames :
                       stored[n].value # None => after[n].value # None
                 /\ \A t \in merging :
                       LET extracted_slots == extract(turns[t].message, <<>>).slots
                       IN  \A n \in SlotNames :
                              IF Truthy(extracted_slots[n].value)
                              THEN after[n].value = extracted_slots[n].value
                              ELSE after[n] = stored[n]]_vars

C19_Witness ==
    \E s, t \in DOMAIN turns :
        /\ turns[s].user_id = turns[t].user_id
        /\ turns[s].stage_result.stage = CLOSING
        /\ turns[s].stage_result.success
        /\ Truthy(extract_contact(turns[s].message))
        /\ "slot_merge" \in turns[t].did
        /\ Truthy(extract_contact(turns[t].message))
        /\ extract_contact(turns[t].message) # extract_contact(turns[s].message)
        /\ turns[t].message.budget_band = None
        /\ LET slots == SlotsOf(funnel_contexts, turns[t].user_id)
           IN  /\ slots["contact"] = [value |-> extract_contact(turns[t].message),
                                      confidence |-> ContactConfidence]
               /\ ContactConfidence < ManualConfidence
               /\ slots["budget_band"].value = turns[s].message.budget_band

-----------------------------------------------------------------------------
(* Claims about the Ollama client (SpecOllama).                            *)

RequestsSent == {k \in DOMAIN call.log : call.log[k].kind = "request"}

(* C14: for generate_response, chat and chat_stream alike, an HTTP         *)
(* client-class (4xx) response ends the call after that single attempt:    *)
(* no backoff sleep follows and no further request is sent.                *)
C14_ClientErrorEndsTheCall ==
    call.method \in Methods
    => \A k \in RequestsSent :
          call.log[k].status = "4xx"
          => /\ k = Len(call.log)
             /\ call.pc \notin {"sleep"}
             /\ call.pc = "done" \/ call.attempt >= call.max_retries

C15_Safe ==
    call.method \in Methods
    => /\ Cardinality(RequestsSent) <= call.max_retries
       /\ \A k \in DOMAIN call.log :
             call.log[k].kind = "sleep"
             => /\ k > 1
                /\ call.log[k - 1].kind = "request"
                /\ call.log[k - 1].attempt = call.log[k].attempt
                /\ call.log[k].seconds = 2 ^ call.log[k].attempt
                /\ call.log[k].attempt < call.max_retries - 1
                /\ k < Len(call.log) => call.log[k + 1].kind = "request"
                /\ call.pc = "done" => k < Len(call.log)
       /\ call.pc = "sleep" => call.attempt < call.max_retries - 1
       /\ call.pc = "done"
             => /\ call.result \in {"text", None, "raised"}
                /\ call.result = "text"
                      => call.log[Len(call.log)].status = "200"
                /\ call.result # "text"
                      => call.result = (IF call.method = "chat_stream"
                                        THEN "raised" ELSE None)
                /\ call.attempt >= call.max_retries
                      => /\ call.result # "text"
                         /\ Cardinality(RequestsSent) = call.max_retries

(* C15: every call to generate_response, chat or chat_stream sends at most *)
(* max_retries HTTP requests and then terminates: on exhaustion            *)
(* generate_response and chat return the failure value None and            *)
(* chat_stream raises; a backoff sleep of 2^attempt seconds happens only   *)
(* between two attempts, never after the last one.                         *)
C15_AtMostMaxRetriesThenEnds == []C15_Safe /\ <>(call.pc = "done")

C15_Witness ==
    /\ call.method = "chat_stream"
    /\ call.max_retries = 3
    /\ call.pc = "done"
    /\ call.result = "raised"
    /\ Cardinality(RequestsSent) = 3
    /\ Len(call.log) = 5
    /\ call.log[2].seconds = 1
    /\ call.log[4].seconds = 2
    /\ call.log[5].kind = "request"

-----------------------------------------------------------------------------
(* Claims about chat.handle_text_message (SpecChat).                       *)

PastFallback == chat.pc \in {"save_reply", "answer", "done"}

(* C11: in the FAQ/LLM orchestrator, when the fast path finds no hit and   *)
(* the LLM is reported unavailable or generation yields no text, the reply *)
(* is chosen in this fixed order: a search-mode FAQ hit; else the keyword  *)
(* general-fallback response; else the static contact message built from   *)
(* the knowledge base's phone, email and handle.  The reply sent and       *)
(* persisted is never the empty string.                                    *)
C11_FallbackOrderAndNonEmptyReply ==
    chat.pc # None
    => /\ (PastFallback /\ ~chat.quick /\ ~chat.llm_text)
          => chat.ai_response =
                (IF chat.found_faq THEN "search_answer"
                 ELSE IF chat.matched = {} THEN "contact_message"
                 ELSE generate_fallback_response(
                         detect_general_intent(chat.matched), chat.last_topic))
       /\ PastFallback => Truthy(chat.ai_response)
       /\ \A k \in DOMAIN chat.saved :
             chat.saved[k][1] = "assistant" => Truthy(chat.saved[k][2])
       /\ chat.pc = "done"
             => /\ Truthy(chat.sent)
                /\ chat.saved[Len(chat.saved)] = <<"assistant", chat.sent>>

C11_Witness ==
    /\ chat.pc = "done"
    /\ ~chat.quick
    /\ ~chat.found_faq
    /\ chat.health = "unavailable"
    /\ chat.matched = {"DETAIL_REQUESTS", "PRICING_QUESTIONS"}
    /\ chat.last_topic = "pricing"
    /\ chat.sent = "pricing_overview"

(* C16: in the streaming generation path, the progress-animation task      *)
(* started before chat_stream has stopped (finished or been cancelled) by  *)
(* the end of the turn on every exit path of generation: success with      *)
(* text, an exception, a timeout, and a return with empty text and no      *)
(* token delivered.                                                        *)
C16_AnimationStoppedByEndOfTurn ==
    (chat.pc # None /\ chat.pc \in ChatEnded)
    => chat.animation \in {"none", "finished", "cancelled"}

(* C17: whenever the streaming call fails to produce a response, the       *)
(* orchestrator makes exactly one non-streaming chat call to the same      *)
(* capability before dropping to the FAQ fallback; when streaming returns  *)
(* non-empty text the non-streaming call is never made.                    *)
C17_OneNonStreamingCallAfterFailedStream ==
    (chat.pc # None /\ chat.stream # None)
    => /\ chat.stream = "text" => chat.chat_calls = 0
       /\ (chat.stream # "text" /\ chat.pc \in {"fallback", "save_reply",
                                                 "answer", "done", "raised"})
             => chat.chat_calls = 1


-----------------------------------------------------------------------------
(* C21: QualificationStage.process returns success = True with next_stage  *)
(* = offer exactly when, after the slots extracted from the current        *)
(* message are merged, goal, budget_band and deadline are all set;         *)
(* otherwise it returns success = False with next_stage = qualification.   *)
(* The slots of the context after route are the merged slots.              *)
QualificationRan ==
    route_call # <<>> /\ route_call[1].handler = QUALIFICATION

AllThreeSet(collection) ==
    \A n \in {"goal", "budget_band", "deadline"} :
        get_value(collection, n) # None

C21_OfferExactlyWhenAllThreeSet ==
    QualificationRan =>
        LET result == route_call[1].result
            merged == funnel_contexts[route_call[1].user_id].slots
        IN  /\ result.stage = QUALIFICATION
            /\ (result.success /\ result.next_stage = OFFER)
                  <=> AllThreeSet(merged)
            /\ ~AllThreeSet(merged) =>
                  ~result.success /\ result.next_stage = QUALIFICATION

(* The goal was absent before the call and comes from the message.         *)
C21_Witness ==
    /\ QualificationRan
    /\ route_call[1].goal_before = None
    /\ route_call[1].result.success
    /\ route_call[1].result.next_stage = OFFER
    /\ AllThreeSet(funnel_contexts[1].slots)

C21_WitnessIncomplete ==
    /\ QualificationRan
    /\ get_value(funnel_contexts[1].slots, "budget_band") # None
    /\ get_value(funnel_contexts[1].slots, "goal") = None
    /\ ~route_call[1].result.success

-----------------------------------------------------------------------------
(* C22: for every message that contains a valid email address, processed   *)
(* by the closing stage for a user with no prior contact slot, the result  *)
(* has success = True and next_stage = None and the response text, the     *)
(* order confirmation, contains that email address.                        *)
ClosingRanOnEmail ==
    /\ route_call # <<>>
    /\ route_call[1].handler = CLOSING
    /\ route_call[1].email # None
    /\ route_call[1].contact_before = None

ResponseContains(result, slots, value) ==
    /\ result.response_text = "order_confirmation"
    /\ \E f \in DOMAIN create_order_confirmation(slots) :
          create_order_confirmation(slots)[f] = value

C22_ClosingConfirmsTheEmail ==
    ClosingRanOnEmail =>
        LET result == route_call[1].result
            slots == funnel_contexts[route_call[1].user_id].slots
        IN  /\ result.success
            /\ result.next_stage = None
            /\ ResponseContains(result, slots, route_call[1].email)

-----------------------------------------------------------------------------
(* C23: every ticket created has the priority fixed by its type (privacy,  *)
(* legal and refund give P1, complaint gives P2, sales_lead gives P3), an  *)
(* SLA deadline equal to its creation time plus 4 hours for P1, 24 hours   *)
(* for P2 and 72 hours for P3, and the status open.                        *)
PriorityOf(ticket_type) ==
    CASE ticket_type \in {"privacy", "legal", "refund"} -> "P1"
      [] ticket_type = "complaint" -> "P2"
      [] ticket_type = "sales_lead" -> "P3"

HoursOf(priority) ==
    CASE priority = "P1" -> 4 [] priority = "P2" -> 24 [] priority = "P3" -> 72

C23_PriorityAndSlaDeadlineAtCreation ==
    \A k \in 1..Len(tickets) :
        LET ticket == tickets[k]
        IN  /\ ticket.priority = PriorityOf(ticket.ticket_type)
            /\ ticket.status = "open"
            /\ ticket.sla_deadline_at =
                  timedelta_hours(ticket.created_at, HoursOf(ticket.priority))

(* What does hold: the deadline is the first reading of the clock plus the *)
(* hours of the priority, and the creation time is not before it.          *)
TicketDeadlineFromEarlierReading ==
    \A k \in 1..Len(tickets) :
        LET ticket == tickets[k]
        IN  /\ ticket.priority = PriorityOf(ticket.ticket_type)
            /\ ticket.status = "open"
            /\ ticket.sla_deadline_at.hours = HoursOf(ticket.priority)
            /\ ticket.sla_deadline_at.us <= ticket.created_at.us

-----------------------------------------------------------------------------
(* C24: the ticket created on escalation has the type that corresponds to  *)
(* the intent: a refund or complaint message (intent group complaints)     *)
(* creates a ticket of type complaint, a privacy request a ticket of type  *)
(* privacy, and sales_lead is used only when the intent's group has no     *)
(* entry in the type map.                                                  *)
EscalationTickets ==
    {k \in 1..Len(tickets) : "handle_escalation" \in turns[tickets[k].turn].did}

C24_TicketTypeFollowsIntent ==
    \A k \in EscalationTickets :
        LET i == turns[tickets[k].turn].intent
            ticket_type == tickets[k].ticket_type
        IN  /\ i.group = "complaints" => ticket_type = "complaint"
            /\ i.group = "privacy" => ticket_type = "privacy"
            /\ ticket_type = "sales_lead" => i.group \notin DOMAIN ticket_type_map

-----------------------------------------------------------------------------
(* C25: once a FunnelContext exists for a user it is never removed or      *)
(* replaced.  Every step keeps every user that has a context; a step of    *)
(* /reset, /delete_data or the retention sweep leaves every context as it  *)
(* is; the only step that changes a context is the funnel step of a turn   *)
(* of that user, and it changes the context in place: no stored slot is    *)
(* lost and no visit counter or stage-change time goes back.               *)
FunnelStepOf(u) ==
    \E t \in DOMAIN turns :
        /\ turns[t].user_id = u
        /\ turns[t].pc = "should_escalate"
        /\ "route" \in turns'[t].did

SameContextMutated(before, after) ==
    /\ after.user_id = before.user_id
    /\ \A st \in FunnelStage :
          after.stage_entry_count[st] >= before.stage_entry_count[st]
    /\ after.last_stage_change >= before.last_stage_change
    /\ \A n \in SlotNames :
          before.slots.slots[n].value # None => after.slots.slots[n].value # None

C25_ContextNeverRemovedOrReplaced ==
    [][/\ DOMAIN funnel_contexts \subseteq DOMAIN funnel_contexts'
       /\ \A u \in DOMAIN funnel_contexts :
             /\ SameContextMutated(funnel_contexts[u], funnel_contexts'[u])
             /\ funnel_contexts'[u] # funnel_contexts[u] => FunnelStepOf(u)
       /\ turns' = turns => funnel_contexts' = funnel_contexts]_vars

(* User 1's context of an earlier turn has outlived a /reset and a later   *)
(* turn of user 1, handled at the support stage, which kept the goal.      *)
C25_Witness ==
    /\ 1 \in DOMAIN funnel_contexts
    /\ funnel_contexts[1].stage_entry_count[CLOSING] = 1
    /\ funnel_contexts[1].stage_entry_count[SUPPORT_STAGE] = 1
    /\ funnel_contexts[1].current_stage = SUPPORT_STAGE
    /\ get_value(funnel_contexts[1].slots, "goal") = "razrabotka"
    /\ Notice(1, "history_cleared") \in outbox
    /\ messages[1] = <<>>
    /\ \E t \in DOMAIN turns : turns[t].user_id = 1 /\ turns[t].pc = "done"

-----------------------------------------------------------------------------
(* C26: turns of different users are independent.  A step of a turn of     *)
(* user A leaves the FunnelContext of every other user as it is and adds   *)
(* no other user to the map, and what the funnel step makes of A's own     *)
(* context (stage, slots, visit counters) is what it makes of it when the  *)
(* map holds no other user's context: so after any interleaving B's stage, *)
(* slots and visit counters are what B's turns alone produce.              *)
OwnOnly(contexts, u) == [v \in DOMAIN contexts \cap {u} |-> contexts[v]]

StageSlotsVisits(ctx) ==
    [user_id |-> ctx.user_id, current_stage |-> ctx.current_stage,
     slots |-> ctx.slots, stage_entry_count |-> ctx.stage_entry_count]

FunnelAlone(t) ==
    LET tr == turns[t]
        ctx0 == get_or_create_context(OwnOnly(funnel_contexts, tr.user_id),
                                      tr.user_id)
        ctx1 == [ctx0 EXCEPT !.slots =
                    merge_extracted(@, extract(tr.message, <<>>))]
    IN  route(ctx1, tr.message, tr.intent, 0).ctx

C26_TurnsOfDifferentUsersIndependent ==
    [][\A t \in DOMAIN turns :
          turns'[t] # turns[t] =>
             LET u == turns[t].user_id
             IN  /\ DOMAIN funnel_contexts' \subseteq DOMAIN funnel_contexts \cup {u}
                 /\ \A v \in DOMAIN funnel_contexts \ {u} :
                       /\ v \in DOMAIN funnel_contexts'
                       /\ funnel_contexts'[v] = funnel_contexts[v]
                 /\ "route" \in turns'[t].did /\ "route" \notin turns[t].did
                       => StageSlotsVisits(funnel_contexts'[u])
                            = StageSlotsVisits(FunnelAlone(t))]_vars

(* Two turns of two users, interleaved: user 2's turn went through the     *)
(* funnel while user 1's turn, started first and routed before it, is      *)
(* still in progress; the two contexts differ.                             *)
C26_Witness ==
    /\ Len(turns) = 2
    /\ turns[1].user_id = 1 /\ turns[2].user_id = 2
    /\ "route" \in turns[1].did /\ "route" \in turns[2].did
    /\ turns[1].pc \notin Ended
    /\ turns[2].pc = "done"
    /\ DOMAIN funnel_contexts = {1, 2}
    /\ Truthy(get_value(funnel_contexts[1].slots, "goal"))
    /\ ~Truthy(get_value(funnel_contexts[2].slots, "goal"))
    /\ funnel_contexts[1].current_stage # funnel_contexts[2].current_stage

-----------------------------------------------------------------------------
(* The number at position k is followed by tys or k.                      *)
CarriesThousandSuffix(tokens, k) ==
    k < Len(tokens) /\ tokens[k + 1] \in {"tys", "k"}

(* C28: for every text in which a budget number N is found, budget_band is *)
(* N multiplied by 1000 followed by " rub" exactly when N carries a        *)
(* thousand suffix (tysyach, tys, k), and N followed by " rub" otherwise,  *)
(* with confidence 0.8; in particular "50 tys rub" gives "50000 rub".      *)
C28_ThousandOnlyWithSuffix ==
    \A c \in 1..Len(extraction.calls) :
        LET tokens == extraction.calls[c].text.tokens
            k == budget_match(tokens)
            budget_band == extraction.calls[c].result.slots["budget_band"]
        IN  k # 0 =>
              /\ budget_band.confidence = BudgetConfidence
              /\ budget_band.value =
                    IF CarriesThousandSuffix(tokens, k)
                    THEN tokens[k] \o "000 rub"
                    ELSE tokens[k] \o " rub"

(* The example of the claim does hold.                                     *)
FiftyThousand ==
    \A c \in 1..Len(extraction.calls) :
        extraction.calls[c].text.tokens = <<"50", "tys", "rub">>
           => extraction.calls[c].result.slots["budget_band"]
                 = [value |-> "50000 rub", confidence |-> BudgetConfidence]

-----------------------------------------------------------------------------
-----------------------------------------------------------------------------
(* Claims about quick_faq_check (SpecSearch).                              *)

InstantThreshold == (75 * Scale) \div 100

(* The call asked a one-item knowledge base for the item's own question.   *)
ExactQuestion(s) ==
    /\ Len(s.knowledge_base) = 1
    /\ s.query = s.knowledge_base[1].question
    /\ s.min_score = InstantThreshold

(* The item returned scores at least the threshold and no item scores      *)
(* more; nothing is returned exactly when no item reaches the threshold.   *)
BestOrNothing(s) ==
    LET score(j) == calculate_relevance(s.query, s.knowledge_base[j])
        reaching == {j \in 1..Len(s.knowledge_base) : score(j) >= s.min_score}
    IN  IF reaching = {} THEN s.result = <<>>
        ELSE \E j \in reaching :
                /\ s.result = <<s.knowledge_base[j], score(j)>>
                /\ \A i \in reaching : score(i) <= score(j)

(* C29: for every knowledge base holding a single FAQ item and every query *)
(* equal to that item's question, quick_faq_check with threshold 0.75      *)
(* returns that item with a score of at least 0.75; in general it returns  *)
(* the highest-scoring item among those scoring at least the threshold, or *)
(* nothing when none does.                                                 *)
C29_ExactQuestionFoundAndBestReturned ==
    \A c \in 1..Len(search) :
        /\ ExactQuestion(search[c]) =>
              /\ search[c].result # <<>>
              /\ search[c].result[1] = search[c].knowledge_base[1]
              /\ search[c].result[2] >= InstantThreshold
        /\ BestOrNothing(search[c])

(* The general half of the claim does hold.                                *)
BestAtOrAboveThreshold == \A c \in 1..Len(search) : BestOrNothing(search[c])

(* So does the first half for a question with a word that is longer than   *)
(* two letters and not a stop word.                                        *)
ExactQuestionWithSignificantWord ==
    \A c \in 1..Len(search) :
        LET s == search[c]
        IN  (/\ ExactQuestion(s)
             /\ \E word \in Range(normalize_text(s.query)) :
                    LongerThanTwo(word) /\ word \notin stop_words)
               => s.result = <<s.knowledge_base[1], Scale>>

-----------------------------------------------------------------------------
(* Claims about the regression set (SpecRegression).                       *)

(* C30: for every case of the regression set TEST_CASES, classify applied  *)
(* to the case's input returns an intent whose name equals the case's      *)
(* expected_intent.                                                        *)
C30_EveryCaseClassifiedAsExpected ==
    \A c \in DOMAIN regression :
        regression[c].name = TEST_CASES[c].expected_intent

(* The cases that are classified as expected, and the three that are not.  *)
CasesAsExpected ==
    \A c \in DOMAIN regression :
        TEST_CASES[c].id \notin {"TC004", "TC008", "TC010"}
           => regression[c].name = TEST_CASES[c].expected_intent

CasesNotAsExpected ==
    \A c \in DOMAIN regression :
        /\ TEST_CASES[c].id = "TC004" => regression[c].name = "abuse"
        /\ TEST_CASES[c].id = "TC008" => regression[c] = DefaultIntent
        /\ TEST_CASES[c].id = "TC010" => regression[c].name = "services_browse"

-----------------------------------------------------------------------------
(* Claims about the transitions of route (SpecRoute).                      *)

(* The stages a route call entered, in order: the stage chosen from the    *)
(* intent where it differs from the stage before the call, then the stage  *)
(* after the call where it differs from the chosen one.                    *)
Entered(before, chosen, after) ==
    (IF chosen # before.current_stage THEN <<chosen>> ELSE <<>>)
    \o (IF after.current_stage # chosen THEN <<after.current_stage>> ELSE <<>>)

Times(q, x) == Cardinality({k \in 1..Len(q) : q[k] = x})

RouteCounts(before, chosen, after) ==
    LET entered == Entered(before, chosen, after)
    IN  /\ Len(entered) <= 2
        /\ \A st \in FunnelStage :
              after.stage_entry_count[st]
                 = before.stage_entry_count[st] + Times(entered, st)

(* C31: each route call performs at most two stage transitions (one before *)
(* the handler runs, one after), each changes current_stage to a stage     *)
(* different from the one current at that moment and increments that       *)
(* stage's visit counter by exactly one, and counters change in no other   *)
(* way: stage_entry_count[s] equals the number of transitions into s.      *)
C31_CountersCountTransitions ==
    [][\A u \in DOMAIN funnel_contexts :
          /\ RouteCounts(funnel_contexts[u], route_call'[1].current_stage,
                         funnel_contexts'[u])
          /\ clock' - clock
                = Len(Entered(funnel_contexts[u], route_call'[1].current_stage,
                              funnel_contexts'[u]))]_vars

(* A call that made both transitions: into the stage chosen from the       *)
(* intent and on to the stage its handler named.                           *)
C31_Witness ==
    /\ route_call # <<>>
    /\ route_call[1].stage_before # route_call[1].current_stage
    /\ funnel_contexts[1].current_stage # route_call[1].current_stage
    /\ funnel_contexts[1].current_stage = route_call[1].result.next_stage
    /\ funnel_contexts[1].stage_entry_count[route_call[1].current_stage] = 1
    /\ funnel_contexts[1].stage_entry_count[funnel_contexts[1].current_stage] = 1
    /\ clock = 2

-----------------------------------------------------------------------------
(* The call chose the stage the context was in and its handler named no    *)
(* other stage.                                                            *)
StaysInStage(rc) ==
    /\ rc.current_stage = rc.stage_before
    /\ \/ ~Truthy(rc.result.next_stage)
       \/ rc.result.next_stage = rc.stage_before

(* C32: when the stage chosen from the intent equals the context's current *)
(* stage and the stage result's next_stage is none or that same stage,     *)
(* route leaves current_stage, stage_entry_count and last_stage_change     *)
(* unchanged.                                                              *)
C32_NoTransitionLeavesStageFieldsAlone ==
    [][\A u \in DOMAIN funnel_contexts :
          StaysInStage(route_call'[1]) =>
             /\ funnel_contexts'[u].current_stage = funnel_contexts[u].current_stage
             /\ funnel_contexts'[u].stage_entry_count
                   = funnel_contexts[u].stage_entry_count
             /\ funnel_contexts'[u].last_stage_change
                   = funnel_contexts[u].last_stage_change
             /\ clock' = clock]_vars

(* A second call that stayed in the stage the first call had entered, and  *)
(* changed a slot while doing so.                                          *)
C32_Witness ==
    /\ route_call # <<>>
    /\ StaysInStage(route_call[1])
    /\ funnel_contexts[1].current_stage = QUALIFICATION
    /\ funnel_contexts[1].stage_entry_count[QUALIFICATION] = 1
    /\ funnel_contexts[1].last_stage_change = 1
    /\ clock = 1
    /\ ~Truthy(route_call[1].goal_before)
    /\ Truthy(get_value(funnel_contexts[1].slots, "goal"))

-----------------------------------------------------------------------------
(* C33: a StageResult has requires_handoff = true if and only if it was    *)
(* produced by the complaints stage, which sets it (with a handoff reason) *)
(* for every input; the support, complaints and retention stages return    *)
(* next_stage = none for every input.                                      *)
C33_HandoffExactlyFromComplaints ==
    \A c \in 1..Len(route_call) :
        LET rc == route_call[c]
        IN  /\ rc.result.requires_handoff <=> rc.handler = COMPLAINTS_STAGE
            /\ rc.result.stage = rc.handler
            /\ rc.handler = COMPLAINTS_STAGE => Truthy(rc.result.handoff_reason)
            /\ rc.handler # COMPLAINTS_STAGE => rc.result.handoff_reason = None
            /\ rc.handler \in {SUPPORT_STAGE, COMPLAINTS_STAGE, RETENTION}
                  => rc.result.next_stage = None

(* The complaints stage ran on a context without an order number and set   *)
(* the handoff.                                                            *)
C33_Witness ==
    /\ route_call # <<>>
    /\ route_call[1].handler = COMPLAINTS_STAGE
    /\ route_call[1].group = "complaints"
    /\ ~Truthy(get_value(funnel_contexts[1].slots, "order_id"))
    /\ route_call[1].result.requires_handoff
    /\ route_call[1].result.handoff_reason = "complaint_needs_manager"
    /\ route_call[1].result.next_stage = None

(* The support and retention stages ran as well.                           *)
C33_WitnessRetention ==
    /\ route_call # <<>>
    /\ route_call[1].handler = RETENTION
    /\ ~route_call[1].result.requires_handoff

-----------------------------------------------------------------------------
(* What the acquisition stage answers and the stage it names.              *)
AcquisitionAnswer(rc, response_text, next_stage) ==
    /\ rc.result.stage = ACQUISITION
    /\ rc.result.response_text = response_text
    /\ rc.result.next_stage = next_stage

C34_WitnessFirstGreeting ==
    /\ route_call # <<>>
    /\ route_call[1].created
    /\ route_call[1].name = "greet"
    /\ route_call[1].greeting
    /\ route_call[1].result.response_text = "greeting"
    /\ funnel_contexts[1].current_stage = ACQUISITION

-----------------------------------------------------------------------------
(* C35: a slot value is committed to a user's context only if              *)
(* validate_slot accepts it: after any sequence of turns, every contact,   *)
(* order_id and budget_band value held in any FunnelContext satisfies      *)
(* validate_slot for its slot name.                                        *)
C35_HeldValuesPassValidation ==
    \A u \in DOMAIN funnel_contexts :
        \A slot_name \in {"contact", "order_id", "budget_band"} :
            LET value == get_value(funnel_contexts[u].slots, slot_name)
            IN  Truthy(value) => validate_slot(slot_name, value)[1]

(* Two users hold between them a phone number, an e-mail address, an order *)
(* number and a budget.                                                    *)
C35_Witness ==
    /\ DOMAIN funnel_contexts = {1, 2}
    /\ \E u, v \in {1, 2} :
          /\ get_value(funnel_contexts[u].slots, "contact") = "user@example.com"
          /\ get_value(funnel_contexts[u].slots, "budget_band") = "50000000 rub"
          /\ get_value(funnel_contexts[v].slots, "contact") = "+79991234567"

(* ---- C36 ---------------------------------------------------------------- *)

(* What the last-resort chain of chat.py can answer: an FAQ search result, *)
(* a general-fallback response, or the contact message.                    *)
LastResortReplies == {format_faq_results(TRUE), "contact_message"} \cup {generate_fallback_response(g, topic) : g \in {"greeting", "clarification", "company_overview", "more_details", "pricing_overview"}, topic \in {"services", "pricing", None}}

(* The health check of the turn has answered "unavailable".                *)
HealthUnavailable(turn) == "check_health" \in turn.did /\ "loading" \notin turn.did

-----------------------------------------------------------------------------
(* The orchestrator of chat_new.py under messages chosen for the funnel:   *)
(* each group that _determine_stage_by_intent tells apart is sent, with    *)
(* and without a goal in the text.                                         *)

StageUpdates ==
    {Update({"vernut", "zakaz"}, 4, "12345", None, None, None, None, FALSE),
     Update({"skolko stoit"}, 3, None, None, None, None, None, TRUE),
     Update({"hochu zakazat"}, 6, None, "50000000 rub", "zavtra", None, None,
            FALSE),
     Update({"sdelat sajt"}, 2, None, None, None, None, None, FALSE),
     Update({"status"}, 4, None, None, None, "+79991234567", None, FALSE),
     Update({"skolko stoit", "sdelat sajt"}, 4, None, None, None, None, None,
            FALSE)}

(* The funnel keeps one context per user and a turn reads and writes only  *)
(* its own user's, so the turns sent here are all of one user.             *)
StageUser == 1

NextStages ==
    \/ \E update \in StageUpdates : Dispatch(StageUser, update)
    \/ \E t \in 1..MaxTurns :
          \/ \E stored \in BOOLEAN : SaveUserMessage(t, stored)
          \/ LoadAndClassify(t)
          \/ Escalate(t)
          \/ FaqFastPath(t)
          \/ Funnel(t)
          \/ CreateTicket(t)
          \/ \E is_available \in BOOLEAN : CheckHealth(t, is_available)
          \/ StartLoading(t)
          \/ Generate(t)
          \/ \E stored \in BOOLEAN : SaveReply(t, stored)
          \/ Answer(t)

SpecStages == Init /\ [][NextStages]_vars

(* ---- C37 ---------------------------------------------------------------- *)

(* The stages a context of the orchestrator is found in.                   *)
EnteredStages == {ACQUISITION, QUALIFICATION, OFFER, CLOSING, SUPPORT_STAGE}

(* The turn went through the funnel and then to handle_stage_handoff.      *)
StageHandoff(turn) == "process" \in turn.did /\ (turn.pc = "create_ticket" \/ "create_ticket" \in turn.did)

(* C37: in the orchestrator every user's current_stage is acquisition,     *)
(* qualification, offer, closing or support; no stage handler of           *)
(* complaints or retention runs, no stage result asks for a handoff and    *)
(* handle_stage_handoff is never invoked.                                  *)
C37_ComplaintsAndRetentionNeverEntered == /\ \A u \in DOMAIN funnel_contexts : funnel_contexts[u].current_stage \in EnteredStages /\ \A t \in 1..Len(turns) : /\ turns[t].stage_result.stage \notin {COMPLAINTS_STAGE, RETENTION} /\ ~turns[t].stage_result.requires_handoff /\ ~StageHandoff(turns[t])

(* A user standing in the funnel sent a complaint, which was escalated.    *)
C37_Witness == \E t \in 1..Len(turns) : /\ turns[t].intent.group = "complaints" /\ "handle_escalation" \in turns[t].did /\ turns[t].pc = "done" /\ turns[t].user_id \in DOMAIN funnel_contexts /\ funnel_contexts[turns[t].user_id].current_stage = SUPPORT_STAGE

(* ---- C38 ---------------------------------------------------------------- *)

HasGoal(ctx) == Truthy(get_value(ctx.slots, "goal"))

(* The turn's stage handler was the one of offer or of closing.            *)
OfferOrClosingRan(turn) == "process" \in turn.did /\ turn.stage_result.stage \in {OFFER, CLOSING}

(* C38: in the orchestrator a user whose current_stage is offer or closing *)
(* has a non-empty goal slot, and the offer and closing handlers run only  *)
(* for a context that holds a goal (slots are never emptied, so the goal   *)
(* the handler saw is still held).                                         *)
C38_OfferAndClosingHoldGoal == /\ \A u \in DOMAIN funnel_contexts : funnel_contexts[u].current_stage \in {OFFER, CLOSING} => HasGoal(funnel_contexts[u]) /\ \A t \in 1..Len(turns) : OfferOrClosingRan(turns[t]) => HasGoal(funnel_contexts[turns[t].user_id])

(* An order without a goal was kept at qualification, and the next        *)
(* message, naming the goal, completed it: the user stands at offer.       *)
C38_Witness == /\ Len(turns) = 2 /\ "process" \in turns[1].did /\ turns[1].stage_result.stage = QUALIFICATION /\ turns[1].stage_result.next_stage = QUALIFICATION /\ "process" \in turns[2].did /\ turns[2].stage_result.next_stage = OFFER /\ funnel_contexts[StageUser].current_stage = OFFER /\ HasGoal(funnel_contexts[StageUser])

(* The offer handler and the closing handler have both run.                *)
C38_WitnessHandlers == \E t1, t2 \in 1..Len(turns) : /\ OfferOrClosingRan(turns[t1]) /\ turns[t1].stage_result.stage = OFFER /\ OfferOrClosingRan(turns[t2]) /\ turns[t2].stage_result.stage = CLOSING

(* ---- C39 ---------------------------------------------------------------- *)

(* The intent classify returned is one the first or the third rule of      *)
(* should_escalate names.                                                  *)
CriticalOrHuman(i) == i.group \in super_priority_groups \/ i.name = "human_handoff"

(* C39: in the orchestrator, where should_escalate is given the intent     *)
(* classify returned and that intent's confidence, a turn is escalated     *)
(* exactly when the group is security, privacy or complaints or the name   *)
(* is human_handoff; the low-confidence rule and the legal rule never      *)
(* fire, because a transactions or support intent has confidence of at     *)
(* least 0.3 and no intent is named legal.                                 *)
C39_EscalatedIffCriticalOrHuman == (intent # NoIntent => /\ intent.name # "legal" /\ (intent.group \in {"transactions", "support"} => intent.confidence >= LowConfidence)) /\ (escalation # NoEscalation => /\ escalation.escalate <=> CriticalOrHuman(intent) /\ escalation.reason \notin {<<"low_confidence">>, <<"legal_question">>})

(* A request for a human was escalated by the third rule.                  *)
C39_Witness == /\ escalation # NoEscalation /\ escalation.escalate /\ intent.name = "human_handoff" /\ escalation.reason = <<"human_requested">>

(* A support intent passed the second rule and was not escalated.          *)
C39_WitnessSupport == /\ escalation # NoEscalation /\ ~escalation.escalate /\ intent.group = "support" /\ intent.confidence >= LowConfidence

-----------------------------------------------------------------------------
(* ai/ollama_client.py, chat_stream, line by line.  A text is the sequence *)
(* of its characters and every token is one character, so the text built   *)
(* with `full_response += token` is the sequence of the tokens appended.   *)
(* The callback is the on_token of bot/handlers/chat.py, which appends the *)
(* token to its own list and counts it; it cannot raise.                   *)

MaxStreamTokens == 2

DefaultMaxRetries == 3

StreamTokens == {"a", " "}

(* The POST's outcomes; a body that breaks while it is read is StreamBreaks. *)
StreamStatuses == Outcomes \ {"200_unreadable"}

RECURSIVE lstrip(_)
lstrip(s) == IF s # <<>> /\ Head(s) = " " THEN lstrip(Tail(s)) ELSE s

RECURSIVE rstrip(_)
rstrip(s) == IF s # <<>> /\ s[Len(s)] = " " THEN rstrip(SubSeq(s, 1, Len(s) - 1)) ELSE s

(* str.strip()                                                            *)
strip(s) == rstrip(lstrip(s))

StreamCall(max_retries) ==
    [pc |-> "for", attempt |-> 0, max_retries |-> max_retries, lines |-> 0,
     full_response |-> <<>>, on_token |-> <<>>, result |-> None]

StreamFrame == UNCHANGED <<nluVars, funnelVars, turnVars, llmVars, creating, extraction, search, regression>>

(* chat.py calls chat_stream(chat_messages, on_token=on_token).            *)
ChatStreamCalled ==
    /\ stream = NoStream
    /\ stream' = StreamCall(DefaultMaxRetries)
    /\ StreamFrame

(* One POST.  Status 200 sets full_response = "" and starts the line loop; *)
(* every other outcome ends the iteration (the sleep included) and the     *)
(* loop goes round.                                                        *)
StreamPost(outcome) ==
    /\ stream # NoStream
    /\ stream.pc = "for"
    /\ stream.attempt < stream.max_retries
    /\ stream' =
          IF on_response("chat_stream", outcome) = "return_text"
          THEN [stream EXCEPT !.pc = "lines", !.lines = 0, !.full_response = <<>>]
          ELSE [stream EXCEPT !.attempt = @ + 1]
    /\ StreamFrame

(* One line of the body that parses: a token that is not empty is added to *)
(* full_response and handed to on_token; "done" leaves the loop and the    *)
(* stripped text is returned.                                              *)
StreamLine(token, done) ==
    /\ stream # NoStream
    /\ stream.pc = "lines"
    /\ stream.lines < MaxStreamTokens
    /\ LET full_response == IF token # "" THEN Append(stream.full_response, token)
                            ELSE stream.full_response
           delivered == IF token # "" THEN Append(stream.on_token, token)
                        ELSE stream.on_token
       IN  stream' = [stream EXCEPT
              !.lines = @ + 1,
              !.full_response = full_response,
              !.on_token = delivered,
              !.pc = IF done THEN "done" ELSE "lines",
              !.result = IF done THEN strip(full_response) ELSE None]
    /\ StreamFrame

(* The body ends without a "done" line: the loop ends and the stripped     *)
(* text is returned.                                                       *)
StreamEnds ==
    /\ stream # NoStream
    /\ stream.pc = "lines"
    /\ stream' = [stream EXCEPT !.pc = "done",
                                !.result = strip(stream.full_response)]
    /\ StreamFrame

(* The line iterator raises (the total timeout of 120 s runs out or the    *)
(* connection breaks): the exception leaves the line loop, the handlers of *)
(* the attempt log it and sleep, and the loop goes round.                  *)
StreamBreaks ==
    /\ stream # NoStream
    /\ stream.pc = "lines"
    /\ stream' = [stream EXCEPT !.pc = "for", !.attempt = @ + 1]
    /\ StreamFrame

(* range(max_retries) is used up: raise Exception.                         *)
StreamExhausted ==
    /\ stream # NoStream
    /\ stream.pc = "for"
    /\ stream.attempt >= stream.max_retries
    /\ stream' = [stream EXCEPT !.pc = "raised"]
    /\ StreamFrame

NextStream ==
    \/ ChatStreamCalled
    \/ \E outcome \in StreamStatuses : StreamPost(outcome)
    \/ \E token \in StreamTokens \cup {""}, done \in BOOLEAN : StreamLine(token, done)
    \/ StreamEnds
    \/ StreamBreaks
    \/ StreamExhausted

SpecStream == InitExtract /\ [][NextStream]_vars

(* ---- C40 ---------------------------------------------------------------- *)

(* C40: whenever chat_stream returns a text, the tokens passed to on_token *)
(* during the call, concatenated in delivery order, equal the returned     *)
(* text up to surrounding whitespace; no token is delivered twice, also    *)
(* when an attempt fails midway through the stream and the call is         *)
(* retried.                                                                *)
C40_DeliveredTokensAreTheReturnedText == (stream # NoStream /\ stream.pc = "done") => strip(stream.on_token) = stream.result
=============================================================================
